---- MODULE Spec2Model ----
(***************************************************************************)
(* Pattern memory and curation engine of ce-ai-ace (ACE orchestration      *)
(* plugin): the SQLite pattern store, the deterministic curator of         *)
(* ace-cycle.py, the feedback recorder, the session-end cleanup and the    *)
(* pattern import.                                                         *)
(*                                                                         *)
(* Numbers that are floats in the program (confidence, similarity) are     *)
(* exact rationals <<numerator, denominator>>; <<0, 0>> is SQL NULL, the   *)
(* value SQLite yields for a division by zero.  A name or description is   *)
(* the set of its lower-cased whitespace tokens, which is all the          *)
(* similarity code reads of it.                                            *)
(***************************************************************************)
EXTENDS Integers, Sequences, FiniteSets, TLC

VARIABLES patterns,        \* table patterns: id -> row
          insights,        \* table insights: set of [rowid, pattern_id]
          insightSeq,      \* AUTOINCREMENT counter of insights
          observations,    \* table observations: set of [rowid, pattern_id]
          observationSeq,  \* AUTOINCREMENT counter of observations
          dbExists,        \* .ace-memory/patterns.db has been created
          sessionPc,       \* position of ace-session-end.py main
          decisions,       \* curate() decisions of the last cycle, in order
          run,             \* outcome of the ace-cycle.py run, when it ran last
          pruned,          \* rows the last prune_low_confidence reported as pruned
          used,            \* handler runs so far
          procs,           \* the ace-cycle.py processes that run side by side
          doc,             \* CLAUDE.md: its lines, or NoFile
          history,         \* .ace-memory/playbook-history.txt: its entries
          sync,            \* what the last update_playbook_with_delta did
          epochs,          \* table epochs: the rows in insertion order
          epochRet,        \* the last call of epoch-manager.py and what it returned
          now,             \* the clock datetime.now() reads
          evolution,       \* table pattern_evolution: the rows in insertion order
          cache,           \* table training_cache: the rows in insertion order
          trainRet,        \* the last offline-training call and what it did
          probe,           \* the last read-only call: its arguments and its result
          starts,          \* the start_epoch calls that run side by side
          writer           \* the call whose connection holds the write lock, or 0

\* the pattern store and the hooks that run one at a time
storeVars == <<patterns, insights, insightSeq, observations, observationSeq,
               dbExists, sessionPc, decisions, run, pruned, used>>

\* the playbook document and its history
syncVars == <<doc, history, sync>>

\* the offline-training epochs
epochVars == <<epochs, epochRet, now>>

\* the tables offline training fills
trainVars == <<evolution, cache, trainRet>>

\* the overlapping calls of start_epoch and the write lock of the database
lockVars == <<starts, writer>>

vars == <<storeVars, procs, syncVars, epochVars, trainVars, probe, lockVars>>

(***************************************************************************)
(* Bounds of the model.                                                    *)
(***************************************************************************)
MaxObs == 12          \* the rows of the store hold no more observations than this in total
MaxRuns == 4          \* handler runs in one behaviour (a run that ends early is free)
MaxStarts == 3        \* starts of the hook as a process in one behaviour
MaxSyncs == 3         \* runs of update_playbook_with_delta in one behaviour
MaxCalls == 7         \* calls of start_epoch and complete_epoch in one behaviour
MaxSnapshots == 11    \* insights of the pattern has_converged is asked about

(***************************************************************************)
(* Configuration of ace-cycle.py and ace-session-end.py.  Thresholds are   *)
(* in hundredths.                                                          *)
(***************************************************************************)
SIMILARITY_THRESHOLD == 85
PRUNE_THRESHOLD == 30
MIN_OBSERVATIONS == 10
DOMAIN_DISCOVERY_EVERY == 10
MAX_EPOCHS == 5
TRAINING_LIMIT == 100
MIN_OBSERVATIONS_FOR_CONVERGENCE == 20
CONFIDENCE_VARIANCE_THRESHOLD == 5
RECENT_INSIGHTS == 10
MIN_INSIGHT_HISTORY == 5

None == "None"
NoRow == [id |-> None]      \* what fetchone() gives when no row matches
NULL == <<0, 0>>

(***************************************************************************)
(* Rational arithmetic on <<n, d>> with d > 0.                             *)
(***************************************************************************)
Max(a, b) == IF a >= b THEN a ELSE b

RatGE(a, b) == a[1] * b[2] >= b[1] * a[2]
RatGT(a, b) == a[1] * b[2] > b[1] * a[2]
RatLT(a, b) == a[1] * b[2] < b[1] * a[2]
RatEq(a, b) == a[1] * b[2] = b[1] * a[2]

\* SQL comparison "confidence < ?": NULL compares as unknown, the row is not selected
SqlLess(c, pct) == c # NULL /\ RatLT(c, <<pct, 100>>)

\* equality of two stored confidences; NULL equals only NULL
ConfEq(a, b) == IF a = NULL \/ b = NULL THEN a = b ELSE RatEq(a, b)

\* ORDER BY confidence DESC: NULL sorts last
ConfGE(a, b) == b = NULL \/ (a # NULL /\ RatGE(a, b))

Range(s) == {s[i] : i \in 1..Len(s)}

(***************************************************************************)
(* Strings the code takes apart (split, slice, LIKE) as character          *)
(* sequences.                                                              *)
(***************************************************************************)
Chars(s) ==
    CASE s = "py-004" -> <<"p", "y", "-", "0", "0", "4">>
      [] s = "py-007" -> <<"p", "y", "-", "0", "0", "7">>
      [] s = "io-001" -> <<"i", "o", "-", "0", "0", "1">>
      [] s = "io-002" -> <<"i", "o", "-", "0", "0", "2">>
      [] s = "io-003" -> <<"i", "o", "-", "0", "0", "3">>
      [] s = "python-io" -> <<"p", "y", "t", "h", "o", "n", "-", "i", "o">>
      [] s = "python-files" -> <<"p", "y", "t", "h", "o", "n", "-", "f", "i", "l", "e", "s">>
      [] s = "python-io-568fb" -> <<"p", "y", "t", "h", "o", "n", "-", "i", "o", "-",
                                    "5", "6", "8", "f", "b">>
      [] s = "abstract-caching" -> <<"a", "b", "s", "t", "r", "a", "c", "t", "-",
                                     "c", "a", "c", "h", "i", "n", "g">>
      [] s = "abstract-patterns" -> <<"a", "b", "s", "t", "r", "a", "c", "t", "-",
                                      "p", "a", "t", "t", "e", "r", "n", "s">>
      [] OTHER -> <<>>

RECURSIVE BeforeHyphen(_)
BeforeHyphen(c) ==
    IF c = <<>> \/ Head(c) = "-" THEN <<>> ELSE <<Head(c)>> \o BeforeHyphen(Tail(c))

\* SQL "domain LIKE prefix%"
Like(domain, prefix) ==
    LET d == Chars(domain)
    IN  Len(prefix) <= Len(d) /\ SubSeq(d, 1, Len(prefix)) = prefix

(***************************************************************************)
(* Pattern definitions (two entries of PATTERNS that share domain and      *)
(* type) and the records an import file may carry.                         *)
(***************************************************************************)
py004 == [id |-> "py-004",
          name |-> {"use", "context", "managers", "for", "file", "operations"},
          domain |-> "python-io", type |-> "helpful",
          description |-> {"with", "statement", "ensures", "files", "are",
                           "properly", "closed"}]

py007 == [id |-> "py-007",
          name |-> {"use", "pathlib", "over", "os.path"},
          domain |-> "python-io", type |-> "helpful",
          description |-> {"pathlib", "provides", "object-oriented", "path",
                           "operations"}]

PATTERNS == <<py004, py007>>

BulletId(prefix, n) == [prefix |-> prefix, num |-> n]

\* a near copy of py-004 under another id: same name, 6 of 7 description words
impSimilar == [id |-> "io-001", bullet_id |-> BulletId(<<"i", "o">>, 1),
               name |-> py004.name, domain |-> "python-io", type |-> "helpful",
               description |-> py004.description \ {"closed"},
               observations |-> 1, successes |-> 1, failures |-> 0, neutrals |-> 0,
               helpful_count |-> 0, harmful_count |-> 0, confidence |-> <<1, 1>>]

\* the text of py-004 under another id and the other type
impOtherType == [id |-> "io-002", bullet_id |-> BulletId(<<"i", "o">>, 2),
                 name |-> py004.name, domain |-> "python-io", type |-> "harmful",
                 description |-> py004.description,
                 observations |-> 1, successes |-> 0, failures |-> 1, neutrals |-> 0,
                 helpful_count |-> 0, harmful_count |-> 0, confidence |-> <<0, 1>>]

\* the text of py-004 under another id and another domain
impOtherDomain == [id |-> "io-003", bullet_id |-> BulletId(<<"i", "o">>, 3),
                   name |-> py004.name, domain |-> "python-files", type |-> "helpful",
                   description |-> py004.description,
                   observations |-> 1, successes |-> 1, failures |-> 0, neutrals |-> 0,
                   helpful_count |-> 0, harmful_count |-> 0, confidence |-> <<1, 1>>]

\* the id py-004 exported by a project where it had another text and did badly
impRenamed == [id |-> "py-004", bullet_id |-> BulletId(<<"p", "y">>, 1),
               name |-> {"open", "files", "safely"}, domain |-> "python-io",
               type |-> "helpful", description |-> {"close", "what", "you", "open"},
               observations |-> 10, successes |-> 2, failures |-> 8, neutrals |-> 0,
               helpful_count |-> 0, harmful_count |-> 0, confidence |-> <<2, 10>>]

ImportRecords == {impSimilar, impOtherType, impOtherDomain, impRenamed}

Strategies == {"smart", "overwrite", "skip-existing"}

(***************************************************************************)
(* Curator: similarity, decision, merge.                                   *)
(***************************************************************************)
\* jaccard() without its test for an empty word set
jaccard_NoGuard(words1, words2) ==
    IF words1 \cup words2 = {} THEN <<0, 0>>
    ELSE <<Cardinality(words1 \cap words2), Cardinality(words1 \cup words2)>>

\* jaccard() nested in calculate_similarity
jaccard(words1, words2) ==
    IF words1 = {} \/ words2 = {} THEN <<0, 1>>
    ELSE <<Cardinality(words1 \cap words2), Cardinality(words1 \cup words2)>>

\* The import of SemanticSimilarityEngine fails (embeddings_engine.py defines
\* no such class), so every call takes the except branch: name 60%, description 40%.
calculate_similarity(pattern1, pattern2) ==
    LET name_sim == jaccard(pattern1.name, pattern2.name)
        desc_sim == jaccard(pattern1.description, pattern2.description)
    IN  <<6 * name_sim[1] * desc_sim[2] + 4 * desc_sim[1] * name_sim[2],
          10 * name_sim[2] * desc_sim[2]>>

\* the loop of curate(): best_match / best_similarity after the first i-1 rows
RECURSIVE BestMatch(_, _, _, _)
BestMatch(new_pattern, existing_patterns, i, best) ==
    IF i > Len(existing_patterns) THEN best
    ELSE LET existing == existing_patterns[i]
         IN  IF existing.domain # new_pattern.domain
                THEN BestMatch(new_pattern, existing_patterns, i + 1, best)
             ELSE IF existing.type # new_pattern.type
                THEN BestMatch(new_pattern, existing_patterns, i + 1, best)
             ELSE LET similarity == calculate_similarity(new_pattern, existing)
                  IN  IF RatGT(similarity, best.similarity)
                         THEN BestMatch(new_pattern, existing_patterns, i + 1,
                                        [match |-> existing.id, similarity |-> similarity])
                         ELSE BestMatch(new_pattern, existing_patterns, i + 1, best)

\* the decision of curate() once the loop has left best_match / best_similarity,
\* merging into the best match whatever its similarity
Decide_NoThreshold(new_pattern, best) ==
    IF best.match # None
       THEN [action |-> "merge", target_id |-> best.match]
    ELSE IF new_pattern.observations >= MIN_OBSERVATIONS
            /\ RatLT(new_pattern.confidence, <<PRUNE_THRESHOLD, 100>>)
       THEN [action |-> "prune", target_id |-> None]
    ELSE [action |-> "create", target_id |-> None]

\* the decision of curate() once the loop has left best_match / best_similarity
Decide(new_pattern, best) ==
    IF best.match # None /\ RatGE(best.similarity, <<SIMILARITY_THRESHOLD, 100>>)
       THEN [action |-> "merge", target_id |-> best.match]
    ELSE IF new_pattern.observations >= MIN_OBSERVATIONS
            /\ RatLT(new_pattern.confidence, <<PRUNE_THRESHOLD, 100>>)
       THEN [action |-> "prune", target_id |-> None]
    ELSE [action |-> "create", target_id |-> None]

curate(new_pattern, existing_patterns) ==
    Decide(new_pattern, BestMatch(new_pattern, existing_patterns, 1,
                                  [match |-> None, similarity |-> <<0, 1>>]))

\* merge_patterns() taking the failures of the source alone
merge_patterns_LastFailures(target, source) ==
    [target EXCEPT !.observations = @ + source.observations,
                   !.successes = @ + source.successes,
                   !.failures = source.failures,
                   !.neutrals = @ + source.neutrals]

merge_patterns(target, source) ==
    [target EXCEPT !.observations = @ + source.observations,
                   !.successes = @ + source.successes,
                   !.failures = @ + source.failures,
                   !.neutrals = @ + source.neutrals]

\* successes / max(observations, 1), as main() recomputes it
CycleConfidence(p) == <<p.successes, Max(p.observations, 1)>>

(***************************************************************************)
(* Store functions of ace-cycle.py.                                        *)
(***************************************************************************)
get_pattern(pats, pattern_id) ==
    IF pattern_id \in DOMAIN pats THEN pats[pattern_id] ELSE NoRow

\* prefix = pattern_id.split('-')[0] if '-' in pattern_id else domain[:3]
BulletPrefix(c, d) ==
    IF "-" \in Range(c) THEN BeforeHyphen(c)
    ELSE SubSeq(d, 1, IF Len(d) < 3 THEN Len(d) ELSE 3)

\* number = COUNT(*) of the rows whose domain is LIKE 'prefix%', plus 1
NextBullet(pats, prefix) ==
    BulletId(prefix, Cardinality({id \in DOMAIN pats : Like(pats[id].domain, prefix)}) + 1)

generate_bullet_id(pats, domain, pattern_id) ==
    NextBullet(pats, BulletPrefix(Chars(pattern_id), Chars(domain)))

\* pattern.get('helpful_count', 0)
GetCount(pattern, field) == IF field \in DOMAIN pattern THEN pattern[field] ELSE 0

\* the column values store_pattern binds
Row(pattern, bullet_id) ==
    [id |-> pattern.id, bullet_id |-> bullet_id,
     name |-> pattern.name, domain |-> pattern.domain,
     type |-> pattern.type, description |-> pattern.description,
     observations |-> pattern.observations,
     successes |-> pattern.successes, failures |-> pattern.failures,
     neutrals |-> pattern.neutrals,
     helpful_count |-> GetCount(pattern, "helpful_count"),
     harmful_count |-> GetCount(pattern, "harmful_count"),
     confidence |-> pattern.confidence]

\* the INSERT of store_pattern: it raises sqlite3.IntegrityError when the
\* bullet_id is already taken (bullet_id TEXT UNIQUE NOT NULL): ok = FALSE,
\* table unchanged
InsertPattern(pats, pattern, bullet_id) ==
    IF \E id \in DOMAIN pats : pats[id].bullet_id = bullet_id
       THEN [ok |-> FALSE, patterns |-> pats]
       ELSE [ok |-> TRUE, patterns |-> pats @@ (pattern.id :> Row(pattern, bullet_id))]

\* store_pattern generating a bullet_id for the row it updates as well
store_pattern_NewBullet(pats, pattern) ==
    IF pattern.id \in DOMAIN pats
       THEN [ok |-> TRUE,
             patterns |-> [pats EXCEPT ![pattern.id] =
                              Row(pattern, generate_bullet_id(pats, pattern.domain,
                                                              pattern.id))]]
       ELSE InsertPattern(pats, pattern,
                          generate_bullet_id(pats, pattern.domain, pattern.id))

\* store_pattern: UPDATE (bullet_id kept) or INSERT with a generated bullet_id
store_pattern(pats, pattern) ==
    IF pattern.id \in DOMAIN pats
       THEN [ok |-> TRUE,
             patterns |-> [pats EXCEPT ![pattern.id] = Row(pattern, @.bullet_id)]]
       ELSE InsertPattern(pats, pattern,
                          generate_bullet_id(pats, pattern.domain, pattern.id))

\* store_insight / store_observation: one appended row, owner not checked
\* (SQLite does not enforce the FOREIGN KEY clause unless asked to)
store_row(table, seq, pattern_id) ==
    table \cup {[rowid |-> seq + 1, pattern_id |-> pattern_id]}

\* the orderings of the rows ids by confidence, highest first (NULL last),
\* rows of equal confidence in any order
RECURSIVE ByConfidence(_, _)
ByConfidence(pats, ids) ==
    IF ids = {} THEN {<<>>}
    ELSE UNION {{<<pats[first]>> \o rest : rest \in ByConfidence(pats, ids \ {first})} :
                  first \in {x \in ids : \A y \in ids :
                                ConfGE(pats[x].confidence, pats[y].confidence)}}

\* list_patterns: SELECT * FROM patterns ORDER BY confidence DESC
list_patterns(pats) == ByConfidence(pats, DOMAIN pats)

(***************************************************************************)
(* ace-cycle.py main(): one hook run.                                      *)
(***************************************************************************)
TestStatuses == {"passed", "failed", "none"}

\* contributed_to of every analysis of a run: the reflector agent maps the
\* test status to success / failure / neutral, fallback_reflection knows
\* only success and neutral
contributed_to(test_status, agentOk) ==
    IF test_status = "passed" THEN "success"
    ELSE IF test_status = "failed" /\ agentOk THEN "failure"
    ELSE "neutral"

\* detect_patterns: the entries of PATTERNS found in the file, in PATTERNS order
detect_patterns(found) == SelectSeq(PATTERNS, LAMBDA p : p.id \in found)

\* "Prepare new pattern record" (main)
NewPattern(pattern_def, outcome) ==
    [id |-> pattern_def.id, name |-> pattern_def.name, domain |-> pattern_def.domain,
     type |-> pattern_def.type, description |-> pattern_def.description,
     observations |-> 1,
     successes |-> IF outcome = "success" THEN 1 ELSE 0,
     failures |-> IF outcome = "failure" THEN 1 ELSE 0,
     neutrals |-> IF outcome = "neutral" THEN 1 ELSE 0,
     confidence |-> <<0, 1>>]

\* every record main() can hand to curate and merge_patterns
ObservationRecords ==
    {NewPattern(PATTERNS[i], outcome) :
        i \in 1..Len(PATTERNS), outcome \in {"success", "failure", "neutral"}}

\* the record stored with the confidence it was prepared with
WithCycleConfidence_Stale(p) == p

\* merged['confidence'] = ... / new_pattern['confidence'] = ...
WithCycleConfidence(p) == [p EXCEPT !.confidence = CycleConfidence(p)]

\* the effect of a store_pattern call on the loop: raised on an exception
Stored(r) ==
    [raised |-> ~r.ok, patterns |-> r.patterns, processed |-> IF r.ok THEN 1 ELSE 0]

\* the merge / create / prune branches of one loop iteration; raised when
\* store_pattern raises (injected store error, or IntegrityError)
ApplyDecision(pats, decision, existing, new_pattern, fault) ==
    IF decision.action = "merge" /\ existing # NoRow
       THEN IF fault = "store_pattern"
               THEN [raised |-> TRUE, patterns |-> pats, processed |-> 0]
               ELSE Stored(store_pattern(pats,
                        WithCycleConfidence(merge_patterns(existing, new_pattern))))
    ELSE IF decision.action = "create"
       THEN IF fault = "store_pattern"
               THEN [raised |-> TRUE, patterns |-> pats, processed |-> 0]
               ELSE Stored(store_pattern(pats, WithCycleConfidence(new_pattern)))
    ELSE [raised |-> FALSE, patterns |-> pats, processed |-> 0]

\* the loop state after the branches of one iteration
Applied(st, a, d) ==
    [st EXCEPT !.patterns = a.patterns, !.decisions = Append(@, d),
               !.patterns_processed = @ + a.processed, !.raised = a.raised]

\* curate and apply the decision for one analysis
CurateOne(st, new_pattern, decision, outcome, fault) ==
    Applied(st,
            ApplyDecision(st.patterns, decision, get_pattern(st.patterns, new_pattern.id),
                          new_pattern, fault),
            [id |-> new_pattern.id, action |-> decision.action,
             target_id |-> decision.target_id, contributed_to |-> outcome])

\* store_insight(pattern_id, ...)
StoreInsight(st, pattern_id, fault) ==
    IF st.raised THEN st
    ELSE IF fault = "store_insight" THEN [st EXCEPT !.raised = TRUE]
    ELSE [st EXCEPT !.insights = store_row(@, st.insightSeq, pattern_id),
                    !.insightSeq = @ + 1]

\* store_observation(pattern_id, ...)
StoreObservation(st, pattern_id, fault) ==
    IF st.raised THEN st
    ELSE IF fault = "store_observation" THEN [st EXCEPT !.raised = TRUE]
    ELSE [st EXCEPT !.observations = store_row(@, st.observationSeq, pattern_id),
                    !.observationSeq = @ + 1]

\* one iteration of the loop of STEP 4
Iteration(st, new_pattern, existing_patterns, outcome, fault) ==
    StoreObservation(
        StoreInsight(
            CurateOne(st, new_pattern, curate(new_pattern, existing_patterns),
                      outcome, fault),
            new_pattern.id, fault),
        new_pattern.id, fault)

\* STEP 4 of main: the loop over the analyses, from analysis i on.  An
\* exception leaves the loop with everything committed so far in place.
RECURSIVE CurateLoop(_, _, _, _, _, _)
CurateLoop(detected, i, existing_patterns, outcome, fault, st) ==
    IF i > Len(detected) \/ st.raised THEN st
    ELSE CurateLoop(detected, i + 1, existing_patterns, outcome, fault,
                    Iteration(st, NewPattern(detected[i], outcome), existing_patterns,
                              outcome, IF i = 1 THEN fault ELSE "none"))

\* What the hook receives and what its collaborators do in one run.  fault
\* names the step that raises an exception in this run ("none": no step does;
\* a store fault hits the first analysis of the loop).
Input(stdin, readable, found, test_status, agentOk, fault) ==
    [stdin : stdin, readable : readable, found : found, test_status : test_status,
     agentOk : agentOk, fault : fault]

\* runs that end before the curation loop
EarlyInputs ==
    Input({"invalid", "no_file_path", "unsupported"}, {TRUE}, {{}}, {"none"},
          {TRUE}, {"none"})
    \cup Input({"py"}, {FALSE}, {{}}, {"none"}, {TRUE}, {"none"})
    \cup Input({"py"}, {TRUE}, {{}}, {"none"}, {TRUE}, {"none", "init_database"})
    \cup Input({"py"}, {TRUE}, {{"py-004"}}, {"none"}, {TRUE}, {"evidence", "reflect"})

Found == (SUBSET {"py-004", "py-007"}) \ {{}}

\* runs that reach the curation loop, no step failing
LoopInputs == Input({"py"}, {TRUE}, Found, TestStatuses, BOOLEAN, {"none"})

\* runs that reach the curation loop, one step failing
FaultInputs ==
    Input({"py"}, {TRUE}, {{"py-004"}, {"py-004", "py-007"}}, {"passed"}, {TRUE},
          {"store_pattern", "store_insight", "store_observation",
           "domain_discovery", "playbook"})

\* the run's result: the failure that occurred (if any), whether
\* {"continue": true} was printed, and the exit status
Result(failure, signal, status) ==
    [failure |-> failure, signal |-> signal, exit_status |-> status]

\* a boundary that reports the failure through the exit status
Boundary_ExitOne(failure) == Result(failure, TRUE, 1)

\* except Exception at the boundary of main: print the signal, sys.exit(0)
Boundary(failure) == Result(failure, TRUE, 0)

\* sys.exit(0) raises SystemExit, which "except Exception" does not catch
SilentExit(failure) == Result(failure, FALSE, 0)

NoRun == Result("none", FALSE, 0)

RECURSIVE ObservationsOf(_, _)
ObservationsOf(pats, ids) ==
    IF ids = {} THEN 0
    ELSE LET id == CHOOSE x \in ids : TRUE
         IN  pats[id].observations + ObservationsOf(pats, ids \ {id})

TotalObservations(pats) == ObservationsOf(pats, DOMAIN pats)

\* CLAUDE.md does not exist
NoFile == [exists |-> FALSE, lines |-> <<>>]

\* a PlaybookDelta without changes
NoDelta == [additions |-> <<>>, updates |-> <<>>, deletions |-> <<>>]

\* no update_playbook_with_delta has run on the document as it is
NoSync ==
    [ran |-> FALSE, n |-> 0, new_content |-> <<>>, before |-> NoFile,
     delta |-> NoDelta, wrote |-> FALSE, full |-> FALSE, ret |-> FALSE]

\* no function of epoch-manager.py has been called
NoCall == [call |-> "none", value |-> 0]

\* neither run_offline_training nor get_training_data_for_epoch has run
NoTraining ==
    [call |-> "none", epoch |-> 0, data |-> {}, raised |-> FALSE]

\* no read-only call has been made
NoProbe == [fn |-> "none"]

\* the processes that can call start_epoch at the same time
Callers == {1, 2}

\* a process that is not inside start_epoch: its connection holds nothing
NoStart == [pc |-> "idle", at |-> 0, row |-> NoRow, ret |-> 0]

\* the hook processes that can run at the same time (one per tool call)
Procs == {1, 2}

\* a process that is not running main(): no local variable holds anything
IdleProc ==
    [pc |-> "idle", detected |-> <<>>, i |-> 0, outcome |-> "none",
     existing_patterns |-> <<>>, existing |-> NoRow]

Init ==
    /\ procs = [p \in Procs |-> IdleProc]
    /\ doc = NoFile
    /\ history = <<>>
    /\ sync = NoSync
    /\ epochs = <<>>
    /\ epochRet = NoCall
    /\ now = 1
    /\ evolution = <<>>
    /\ cache = <<>>
    /\ trainRet = NoTraining
    /\ probe = NoProbe
    /\ starts = [p \in Callers |-> NoStart]
    /\ writer = 0
    /\ patterns = <<>>
    /\ insights = {}
    /\ insightSeq = 0
    /\ observations = {}
    /\ observationSeq = 0
    /\ dbExists = FALSE
    /\ sessionPc = "idle"
    /\ decisions = <<>>
    /\ run = NoRun
    /\ pruned = {}
    /\ used = 0

\* a run that ends before the curation loop
EndEarly(result, created) ==
    /\ run' = result
    /\ dbExists' = (dbExists \/ created)
    /\ decisions' = <<>>
    /\ pruned' = {}
    /\ UNCHANGED <<patterns, insights, insightSeq, observations, observationSeq, used>>

\* the failure of the run, if any: an exception out of the loop or the
\* playbook update, or one inside domain discovery
Failure(st, fault, total_patterns) ==
    IF st.raised THEN "store"
    ELSE IF st.patterns_processed > 0 /\ fault = "playbook" THEN "playbook"
    ELSE IF total_patterns > 0 /\ total_patterns % DOMAIN_DISCOVERY_EVERY = 0
            /\ fault = "domain_discovery"
       THEN "domain_discovery"
    ELSE "none"

\* the end of main: a failure of the loop or of the playbook update reaches the
\* boundary, one of domain discovery is caught where it occurs
Finish(failure) ==
    IF failure \in {"store", "playbook"} THEN Boundary(failure)
    ELSE Result(failure, TRUE, 0)

\* what a run that reached the loop leaves behind
Commit(st, fault, total_patterns) ==
    /\ TotalObservations(st.patterns) <= MaxObs
    /\ patterns' = st.patterns
    /\ insights' = st.insights
    /\ insightSeq' = st.insightSeq
    /\ observations' = st.observations
    /\ observationSeq' = st.observationSeq
    /\ decisions' = st.decisions
    /\ pruned' = {}
    /\ dbExists' = TRUE
    /\ used' = used + 1
    /\ run' = Finish(Failure(st, fault, total_patterns))

\* main() from the loop on: curate every analysis against the snapshot
\* list_patterns() took, then domain discovery, playbook, signal
CurateAll(in, existing_patterns) ==
    /\ used < MaxRuns
    /\ Commit(CurateLoop(detect_patterns(in.found), 1, existing_patterns,
                         contributed_to(in.test_status, in.agentOk), in.fault,
                         [patterns |-> patterns, insights |-> insights,
                          insightSeq |-> insightSeq, observations |-> observations,
                          observationSeq |-> observationSeq, decisions |-> <<>>,
                          patterns_processed |-> 0, raised |-> FALSE]),
              in.fault, Len(existing_patterns))

main(in, existing_patterns) ==
    IF in.stdin = "invalid" THEN EndEarly(Boundary("stdin"), FALSE)
    ELSE IF in.stdin \in {"no_file_path", "unsupported"}
       THEN EndEarly(SilentExit("none"), FALSE)
    ELSE IF in.fault = "init_database" THEN EndEarly(Boundary("init_database"), FALSE)
    ELSE IF ~in.readable THEN EndEarly(SilentExit("read"), TRUE)
    ELSE IF detect_patterns(in.found) = <<>> THEN EndEarly(SilentExit("none"), TRUE)
    ELSE IF in.fault \in {"evidence", "reflect"} THEN EndEarly(Boundary(in.fault), TRUE)
    ELSE CurateAll(in, existing_patterns)

\* one run of the hook on an input of the given sets
RunCycle(early, loop) ==
    /\ sessionPc = "idle"
    /\ \/ \E in \in early : main(in, <<>>)
       \/ /\ used < MaxRuns
          /\ \E existing_patterns \in list_patterns(patterns) :
                \E in \in loop : main(in, existing_patterns)
    /\ UNCHANGED <<sessionPc, procs, syncVars, epochVars, trainVars, probe, lockVars>>

\* a run in which every step works: the file is readable Python
Cycle == RunCycle(Input({"py"}, {TRUE}, {{}}, {"none"}, {TRUE}, {"none"}), LoopInputs)

\* a run that is skipped or in which a step fails
FailingCycle == RunCycle(EarlyInputs, FaultInputs)

(***************************************************************************)
(* ace-cycle.py main() as a process: the hook is started once per tool     *)
(* call and nothing in the script takes a lock, so two runs can be between *)
(* their first and their last statement at the same time.  Every store     *)
(* function opens its own connection and commits before it returns: one    *)
(* call is one step.  A finished process keeps its local variables (pc =   *)
(* "done") until it is started again.                                      *)
(***************************************************************************)
Running(p) == procs[p].pc \notin {"idle", "done"}

\* main() up to STEP 3: init_database, detect_patterns, gather_evidence, reflect
\* (the tests have passed: the outcome of a run plays no part in how runs
\* interleave)
Begin(p) ==
    /\ ~Running(p)
    /\ used < MaxStarts
    /\ \E found \in Found :
          procs' = [procs EXCEPT ![p] =
                       [IdleProc EXCEPT !.pc = "list_patterns",
                                        !.detected = detect_patterns(found),
                                        !.i = 1,
                                        !.outcome = contributed_to("passed", TRUE)]]
    /\ dbExists' = TRUE
    /\ used' = used + 1
    /\ UNCHANGED <<patterns, insights, insightSeq, observations, observationSeq,
                   sessionPc, decisions, run, pruned, syncVars, epochVars, trainVars, probe, lockVars>>

\* existing_patterns = list_patterns()
ListPatterns(p) ==
    /\ procs[p].pc = "list_patterns"
    /\ \E existing_patterns \in list_patterns(patterns) :
          procs' = [procs EXCEPT ![p].existing_patterns = existing_patterns,
                                 ![p].pc = "get_pattern"]
    /\ UNCHANGED <<storeVars, syncVars, epochVars, trainVars, probe, lockVars>>

\* existing = get_pattern(pattern_id)
GetPattern(p) ==
    /\ procs[p].pc = "get_pattern"
    /\ procs' = [procs EXCEPT
                    ![p].existing = get_pattern(patterns, procs[p].detected[procs[p].i].id),
                    ![p].pc = "store_pattern"]
    /\ UNCHANGED <<storeVars, syncVars, epochVars, trainVars, probe, lockVars>>

\* what the branches of the iteration leave: the table, and the process at
\* store_insight, or ended when store_pattern raised
Branches(p, a) ==
    /\ patterns' = a.patterns
    /\ procs' = [procs EXCEPT ![p].pc = IF a.raised THEN "done" ELSE "store_insight"]

\* decision = curate(new_pattern, existing_patterns) and its branches, on the
\* row get_pattern returned
StorePattern(p) ==
    /\ procs[p].pc = "store_pattern"
    /\ Branches(p, ApplyDecision(patterns,
                                 curate(NewPattern(procs[p].detected[procs[p].i],
                                                   procs[p].outcome),
                                        procs[p].existing_patterns),
                                 procs[p].existing,
                                 NewPattern(procs[p].detected[procs[p].i],
                                            procs[p].outcome),
                                 "none"))
    /\ UNCHANGED <<insights, insightSeq, observations, observationSeq, dbExists,
                   sessionPc, decisions, run, pruned, used, syncVars, epochVars, trainVars, probe, lockVars>>

\* store_insight(pattern_id, ...)
StoreInsightStep(p) ==
    /\ procs[p].pc = "store_insight"
    /\ insights' = store_row(insights, insightSeq, procs[p].detected[procs[p].i].id)
    /\ insightSeq' = insightSeq + 1
    /\ procs' = [procs EXCEPT ![p].pc = "store_observation"]
    /\ UNCHANGED <<patterns, observations, observationSeq, dbExists, sessionPc,
                   decisions, run, pruned, used, syncVars, epochVars, trainVars, probe, lockVars>>

\* store_observation(pattern_id, ...), then the next analysis or the end of main
StoreObservationStep(p) ==
    /\ procs[p].pc = "store_observation"
    /\ observations' = store_row(observations, observationSeq,
                                 procs[p].detected[procs[p].i].id)
    /\ observationSeq' = observationSeq + 1
    /\ procs' = IF procs[p].i < Len(procs[p].detected)
                   THEN [procs EXCEPT ![p].i = @ + 1, ![p].pc = "get_pattern"]
                   ELSE [procs EXCEPT ![p].pc = "done"]
    /\ UNCHANGED <<patterns, insights, insightSeq, dbExists, sessionPc, decisions,
                   run, pruned, used, syncVars, epochVars, trainVars, probe, lockVars>>

ProcNext ==
    \E p \in Procs :
        \/ Begin(p)
        \/ ListPatterns(p)
        \/ GetPattern(p)
        \/ StorePattern(p)
        \/ StoreInsightStep(p)
        \/ StoreObservationStep(p)

\* the hook started by tool calls that overlap
ProcSpec == Init /\ [][ProcNext]_vars

(***************************************************************************)
(* collect-pattern-feedback.py main(): feedback.json lists the bullets     *)
(* that helped or hurt.                                                    *)
(***************************************************************************)
\* update_pattern_feedback: +1 on the row of every listed bullet
update_pattern_feedback(pats, helpful, harmful) ==
    [id \in DOMAIN pats |->
        [pats[id] EXCEPT
            !.helpful_count = @ + (IF pats[id].bullet_id \in helpful THEN 1 ELSE 0),
            !.harmful_count = @ + (IF pats[id].bullet_id \in harmful THEN 1 ELSE 0)]]

\* the formula without helpful_count in its denominator
FeedbackConfidence_HelpfulAbove(p) ==
    <<p.successes + p.helpful_count, Max(p.observations + p.harmful_count, 1)>>

\* the "New formula" of recalculate_confidence_scores
FeedbackConfidence(p) ==
    <<p.successes + p.helpful_count,
      Max(p.observations + p.helpful_count + p.harmful_count, 1)>>

recalculate_confidence_scores(pats) ==
    [id \in DOMAIN pats |-> [pats[id] EXCEPT !.confidence = FeedbackConfidence(pats[id])]]

UnknownBullet == BulletId(<<"p", "y">>, 99)

\* feedback.json naming one bullet as helpful or as harmful; a file naming
\* several bullets has the effect of one such file per bullet in succession
FeedbackLists ==
    LET bullets == {patterns[id].bullet_id : id \in DOMAIN patterns} \cup {UnknownBullet}
    IN  {[helpful |-> {b}, harmful |-> {}] : b \in bullets}
           \cup {[helpful |-> {}, harmful |-> {b}] : b \in bullets}

Feedback ==
    /\ sessionPc = "idle"
    /\ dbExists
    /\ \E feedback \in FeedbackLists :
          /\ feedback.helpful # {} \/ feedback.harmful # {}
          /\ patterns' = recalculate_confidence_scores(
                             update_pattern_feedback(patterns, feedback.helpful,
                                                     feedback.harmful))
    /\ decisions' = <<>>
    /\ run' = NoRun
    /\ pruned' = {}
    /\ used < MaxRuns
    /\ used' = used + 1
    /\ UNCHANGED <<insights, insightSeq, observations, observationSeq, dbExists,
                   sessionPc, procs, syncVars, epochVars, trainVars, probe, lockVars>>

(***************************************************************************)
(* pattern-portability.py import_patterns, one record of the file.         *)
(***************************************************************************)
\* the UPDATE of strategy "smart": column references on the right-hand
\* sides read the row as it was before the statement
smart_update(row, pattern) ==
    [row EXCEPT
        !.observations = @ + pattern.observations,
        !.successes = @ + pattern.successes,
        !.failures = @ + pattern.failures,
        !.neutrals = @ + pattern.neutrals,
        !.confidence = IF row.observations + pattern.observations = 0 THEN NULL
                       ELSE <<row.successes + pattern.successes,
                              row.observations + pattern.observations>>]

\* INSERT OR REPLACE: rows in conflict on id (PRIMARY KEY) or on bullet_id
\* (UNIQUE) are deleted, then the record is inserted
insert_or_replace(pats, pattern) ==
    LET kept == {id \in DOMAIN pats :
                    id # pattern.id /\ pats[id].bullet_id # pattern.bullet_id}
    IN  [id \in kept \cup {pattern.id} |-> IF id = pattern.id THEN pattern ELSE pats[id]]

import_patterns(pats, pattern, merge_strategy) ==
    IF pattern.id \in DOMAIN pats /\ merge_strategy = "skip-existing" THEN pats
    ELSE IF pattern.id \in DOMAIN pats /\ merge_strategy = "smart"
       THEN [pats EXCEPT ![pattern.id] = smart_update(@, pattern)]
    ELSE insert_or_replace(pats, pattern)

Import ==
    /\ sessionPc = "idle"
    /\ dbExists
    /\ \E pattern \in ImportRecords, merge_strategy \in Strategies :
          /\ patterns' = import_patterns(patterns, pattern, merge_strategy)
          /\ TotalObservations(patterns') <= MaxObs
    /\ decisions' = <<>>
    /\ run' = NoRun
    /\ pruned' = {}
    /\ used < MaxRuns
    /\ used' = used + 1
    /\ UNCHANGED <<insights, insightSeq, observations, observationSeq, dbExists,
                   sessionPc, procs, syncVars, epochVars, trainVars, probe, lockVars>>

(***************************************************************************)
(* ace-session-end.py main(): deduplicate_patterns, then                   *)
(* prune_low_confidence, each in its own committed transaction.            *)
(***************************************************************************)
\* the similarity of ace-session-end.py with name and description weighted alike
calculate_similarity_session_end_EvenWeights(p1, p2) ==
    LET name_sim == <<Cardinality(p1.name \cap p2.name),
                      Max(Cardinality(p1.name \cup p2.name), 1)>>
        desc_sim == <<Cardinality(p1.description \cap p2.description),
                      Max(Cardinality(p1.description \cup p2.description), 1)>>
    IN  <<5 * name_sim[1] * desc_sim[2] + 5 * desc_sim[1] * name_sim[2],
          10 * name_sim[2] * desc_sim[2]>>

calculate_similarity_session_end(p1, p2) ==
    LET name_sim == <<Cardinality(p1.name \cap p2.name),
                      Max(Cardinality(p1.name \cup p2.name), 1)>>
        desc_sim == <<Cardinality(p1.description \cap p2.description),
                      Max(Cardinality(p1.description \cup p2.description), 1)>>
    IN  <<6 * name_sim[1] * desc_sim[2] + 4 * desc_sim[1] * name_sim[2],
          10 * name_sim[2] * desc_sim[2]>>

\* the orderings of the rows ids by observations, highest first, ties in any order
RECURSIVE ByObservations(_, _)
ByObservations(pats, ids) ==
    IF ids = {} THEN {<<>>}
    ELSE UNION {{<<pats[first]>> \o rest : rest \in ByObservations(pats, ids \ {first})} :
                  first \in {x \in ids : \A y \in ids :
                                pats[x].observations >= pats[y].observations}}

\* SELECT * FROM patterns ORDER BY observations DESC
patterns_by_observations(pats) == ByObservations(pats, DOMAIN pats)

\* the rows of a merged pattern left as they are
reparent_None(table, from, to) == table

\* UPDATE ... SET pattern_id = ? WHERE pattern_id = ?
reparent(table, from, to) ==
    {[r EXCEPT !.pattern_id = IF @ = from THEN to ELSE @] : r \in table}

\* "Merge p2 into p1": the five statements of the loop body
merge_into(st, p1, p2) ==
    LET summed == [st.patterns[p1.id] EXCEPT
                      !.observations = @ + p2.observations,
                      !.successes = @ + p2.successes,
                      !.failures = @ + p2.failures,
                      !.neutrals = @ + p2.neutrals]
        updated == [summed EXCEPT
                      !.confidence = IF summed.observations = 0 THEN NULL
                                     ELSE <<summed.successes, summed.observations>>]
    IN  [patterns |-> [id \in DOMAIN st.patterns \ {p2.id} |->
                          IF id = p1.id THEN updated ELSE st.patterns[id]],
         insights |-> reparent(st.insights, p2.id, p1.id),
         observations |-> reparent(st.observations, p2.id, p1.id),
         processed |-> st.processed \cup {p2.id}]

\* the inner loop for p1 = rows[i], from rows[j] on; it breaks after a merge
RECURSIVE DedupInner(_, _, _, _)
DedupInner(rows, i, j, st) ==
    IF j > Len(rows) THEN st
    ELSE LET p1 == rows[i]
             p2 == rows[j]
         IN  IF p2.id \in st.processed THEN DedupInner(rows, i, j + 1, st)
             ELSE IF p1.domain # p2.domain \/ p1.type # p2.type
                THEN DedupInner(rows, i, j + 1, st)
             ELSE IF RatGE(calculate_similarity_session_end(p1, p2),
                           <<SIMILARITY_THRESHOLD, 100>>)
                THEN merge_into(st, p1, p2)
             ELSE DedupInner(rows, i, j + 1, st)

RECURSIVE DedupOuter(_, _, _)
DedupOuter(rows, i, st) ==
    IF i > Len(rows) THEN st
    ELSE IF rows[i].id \in st.processed THEN DedupOuter(rows, i + 1, st)
    ELSE DedupOuter(rows, i + 1, DedupInner(rows, i, i + 1, st))

deduplicate_patterns(rows, pats, ins, obs) ==
    LET st0 == [patterns |-> pats, insights |-> ins, observations |-> obs,
                processed |-> {}]
    IN  IF Len(rows) < 2 THEN st0 ELSE DedupOuter(rows, 1, st0)

Deduplicate ==
    /\ sessionPc = "idle"
    /\ dbExists
    /\ \E rows \in patterns_by_observations(patterns) :
          LET st == deduplicate_patterns(rows, patterns, insights, observations)
          IN  /\ patterns' = st.patterns
              /\ insights' = st.insights
              /\ observations' = st.observations
    /\ sessionPc' = "prune"
    /\ decisions' = <<>>
    /\ run' = NoRun
    /\ pruned' = {}
    /\ used < MaxRuns
    /\ used' = used + 1
    /\ UNCHANGED <<insightSeq, observationSeq, dbExists, procs, syncVars, epochVars, trainVars, probe, lockVars>>

\* the selection of prune_low_confidence without the observations floor
to_prune_NoFloor(pats) ==
    {id \in DOMAIN pats : SqlLess(pats[id].confidence, PRUNE_THRESHOLD)}

\* the rows prune_low_confidence selects
to_prune(pats) ==
    {id \in DOMAIN pats : /\ pats[id].observations >= MIN_OBSERVATIONS
                          /\ SqlLess(pats[id].confidence, PRUNE_THRESHOLD)}

\* prune_low_confidence deleting the pattern rows only
prune_low_confidence_PatternsOnly(pats, ins, obs) ==
    LET to_delete == to_prune(pats)
    IN  [patterns |-> [id \in DOMAIN pats \ to_delete |-> pats[id]],
         insights |-> ins,
         observations |-> obs,
         pruned |-> {pats[id] : id \in to_delete}]

\* the three DELETEs per selected row: the pattern, its insights, its observations
prune_low_confidence(pats, ins, obs) ==
    LET to_delete == to_prune(pats)
    IN  [patterns |-> [id \in DOMAIN pats \ to_delete |-> pats[id]],
         insights |-> {r \in ins : r.pattern_id \notin to_delete},
         observations |-> {r \in obs : r.pattern_id \notin to_delete},
         pruned |-> {pats[id] : id \in to_delete}]

PruneLowConfidence ==
    /\ sessionPc = "prune"
    /\ LET st == prune_low_confidence(patterns, insights, observations)
       IN  /\ patterns' = st.patterns
           /\ insights' = st.insights
           /\ observations' = st.observations
           /\ pruned' = st.pruned
    /\ sessionPc' = "idle"
    /\ decisions' = <<>>
    /\ run' = NoRun
    /\ UNCHANGED <<insightSeq, observationSeq, dbExists, used, procs, syncVars,
                   epochVars, trainVars, probe, lockVars>>

Next == Cycle \/ Feedback \/ Import \/ Deduplicate \/ PruneLowConfidence

Spec == Init /\ [][Next]_vars

\* the hook alone, every run skipped or with a failing step (a failure of
\* domain discovery leaves the run as it is without it)
RunSpec == Init /\ [][FailingCycle]_vars

\* near copies of py-004 under ids of their own, as other projects export them
CopyIds == {[id |-> "io-001", num |-> 1], [id |-> "io-004", num |-> 4],
            [id |-> "io-005", num |-> 5]}

Copies ==
    {[impSimilar EXCEPT !.id = c.id, !.bullet_id = BulletId(<<"i", "o">>, c.num),
                        !.observations = n, !.successes = n, !.confidence = <<n, n>>] :
        c \in CopyIds, n \in {1, 2}}

\* import_patterns on a file with one of the copies
ImportCopy ==
    /\ sessionPc = "idle"
    /\ dbExists
    /\ \E pattern \in Copies, merge_strategy \in Strategies :
          /\ patterns' = import_patterns(patterns, pattern, merge_strategy)
          /\ TotalObservations(patterns') <= MaxObs
    /\ decisions' = <<>>
    /\ run' = NoRun
    /\ pruned' = {}
    /\ used < MaxRuns
    /\ used' = used + 1
    /\ UNCHANGED <<insights, insightSeq, observations, observationSeq, dbExists,
                   sessionPc, procs, syncVars, epochVars, trainVars, probe, lockVars>>

DedupNext == Cycle \/ ImportCopy \/ Deduplicate \/ PruneLowConfidence

\* the hook, imports of similar patterns and the session end
DedupSpec == Init /\ [][DedupNext]_vars

(***************************************************************************)
(* playbook-delta-updater.py: CLAUDE.md is kept in step with the generated *)
(* playbook by per-bullet edits.  A line of text is a record of what the   *)
(* regular expressions and the substring tests of the script can tell      *)
(* apart:                                                                  *)
(*   header  pre = the characters before the blank ("##", "###", "#", or   *)
(*           "#(2, 3)"), text = the title;                                 *)
(*   item    pre ++ "[id] text", pre being "", blanks (" ") or other       *)
(*           characters ("> ");                                            *)
(*   text    any other line; id names the bullet id it mentions, if any.   *)
(* Bullet ids are not substrings of one another, nor are bullet texts.     *)
(***************************************************************************)
Header(pre, title) == [kind |-> "header", pre |-> pre, id |-> None, text |-> title]
Item(pre, id, text) == [kind |-> "item", pre |-> pre, id |-> id, text |-> text]
Text(text, mention) == [kind |-> "text", pre |-> "", id |-> mention, text |-> text]

\* re.match(r'^(#{2,3})\s+(.+?)$', line), re.match(r'^#{2,3}\s+', line)
HeaderMatch(line) == line.kind = "header" /\ line.pre \in {"##", "###"}

\* line.strip()
strip(line) == IF line.kind = "item" /\ line.pre = " " THEN [line EXCEPT !.pre = ""] ELSE line

\* re.match(r'\[(\w+-\d+)\]', line)
BulletMatch(line) == line.kind = "item" /\ line.pre = ""

\* extract_bullet_content(line)[0]
extract_bullet_content(line) == IF BulletMatch(line) THEN line.id ELSE None

\* bullet_id in line
Mentions(line, bullet_id) == line.kind \in {"item", "text"} /\ line.id = bullet_id

\* stripped in line, for the stripped line of a bullet
Contains(line, stripped) ==
    line.kind = "item" /\ line.id = stripped.id /\ line.text = stripped.text

\* line.replace(old, new), for stripped bullet lines old and new
replace(line, old, new) ==
    IF Contains(line, old) THEN [line EXCEPT !.id = new.id, !.text = new.text] ELSE line

\* re.match(rf'^#{2,3}\s+{re.escape(section)}', line): in the f-string {2,3}
\* is a replacement field, the tuple (2, 3), so that the pattern reads
\* ^#(2, 3)\s+<section> and matches "#2, 3 <section>"
SectionMatch(line, section) ==
    line.kind = "header" /\ line.pre = "#2, 3" /\ line.text = section

\* a Python dict: the sequence of its items in insertion order
DictKeys(d) == {d[i].k : i \in 1..Len(d)}
DictGet(d, k) == d[CHOOSE i \in 1..Len(d) : d[i].k = k].v
DictPut(d, k, v) ==
    IF k \in DictKeys(d)
       THEN [i \in 1..Len(d) |-> IF d[i].k = k THEN [k |-> k, v |-> v] ELSE d[i]]
       ELSE Append(d, [k |-> k, v |-> v])

\* the least element of a set of line indexes
Least(hits) == CHOOSE i \in hits : \A j \in hits : i <= j

\* parse_existing_playbook: "Save previous section" / "Save last section"
SaveSection(st) ==
    IF st.current_section # None
       THEN DictPut(st.sections, st.current_section,
                    [title |-> st.current_section, level |-> st.current_level,
                     content |-> st.current_content, bullets |-> st.current_bullets])
       ELSE st.sections

\* parse_existing_playbook: one line
ParseLine(st, line) ==
    IF HeaderMatch(line)
       THEN [current_section |-> line.text,
             current_level |-> IF line.pre = "##" THEN 2 ELSE 3,
             current_content |-> <<>>, current_bullets |-> <<>>,
             sections |-> SaveSection(st)]
       ELSE [st EXCEPT !.current_content = Append(@, line),
                       !.current_bullets = IF BulletMatch(line) THEN Append(@, line.id)
                                           ELSE @]

RECURSIVE ParseLines(_, _, _)
ParseLines(lines, i, st) ==
    IF i > Len(lines) THEN SaveSection(st)
    ELSE ParseLines(lines, i + 1, ParseLine(st, lines[i]))

\* the sections of a text
Sections(lines) ==
    ParseLines(lines, 1, [current_section |-> None, current_level |-> 0,
                          current_content |-> <<>>, current_bullets |-> <<>>,
                          sections |-> <<>>])

parse_existing_playbook(document) ==
    IF ~document.exists THEN <<>> ELSE Sections(document.lines)

\* compute_delta: "Save previous section's bullets"
SaveBullets(st) ==
    IF st.current_section # None /\ st.current_bullets # <<>>
       THEN [st EXCEPT !.new_sections = DictPut(@, st.current_section, st.current_bullets),
                       !.current_bullets = <<>>]
       ELSE st

\* compute_delta: one line of new_content
NewLine(st, line) ==
    IF HeaderMatch(line) THEN [SaveBullets(st) EXCEPT !.current_section = line.text]
    ELSE IF extract_bullet_content(strip(line)) # None
       THEN [st EXCEPT !.current_bullets =
                           DictPut(@, extract_bullet_content(strip(line)), line)]
    ELSE st

RECURSIVE NewSections(_, _, _)
NewSections(lines, i, st) ==
    IF i > Len(lines) THEN SaveBullets(st).new_sections
    ELSE NewSections(lines, i + 1, NewLine(st, lines[i]))

\* compute_delta: "Get old bullets"
RECURSIVE OldBullets(_, _, _)
OldBullets(content, i, old_bullets) ==
    IF i > Len(content) THEN old_bullets
    ELSE OldBullets(content, i + 1,
                    IF extract_bullet_content(strip(content[i])) # None
                       THEN DictPut(old_bullets, extract_bullet_content(strip(content[i])),
                                    content[i])
                       ELSE old_bullets)

\* compute_delta: the additions of a section, of the bullets given
Additions(section, bullets) ==
    [i \in 1..Len(bullets) |->
        [section |-> section, bullet_id |-> bullets[i].k, content |-> bullets[i].v]]

\* compute_delta: the updates of a section, of the bullets given
Updates(section, bullets, old_bullets) ==
    [i \in 1..Len(bullets) |->
        [section |-> section, bullet_id |-> bullets[i].k,
         old_content |-> DictGet(old_bullets, bullets[i].k),
         new_content |-> bullets[i].v]]

\* compute_delta: the deletions of a section, of the bullets given
Deletions(section, bullets) ==
    [i \in 1..Len(bullets) |-> [section |-> section, bullet_id |-> bullets[i].k]]

\* compute_delta: "Find additions and updates", "Find deletions" of a section
\* both texts have
SectionDelta(delta, section, new_bullets, old_bullets) ==
    [additions |-> delta.additions \o
         Additions(section,
                   SelectSeq(new_bullets, LAMBDA b : b.k \notin DictKeys(old_bullets))),
     updates |-> delta.updates \o
         Updates(section,
                 SelectSeq(new_bullets, LAMBDA b : /\ b.k \in DictKeys(old_bullets)
                                                  /\ DictGet(old_bullets, b.k) # b.v),
                 old_bullets),
     deletions |-> delta.deletions \o
         Deletions(section,
                   SelectSeq(old_bullets, LAMBDA b : b.k \notin DictKeys(new_bullets)))]

\* compute_delta: "Compare sections", the loop over new_sections
RECURSIVE CompareSections(_, _, _, _)
CompareSections(new_sections, i, old_sections, delta) ==
    IF i > Len(new_sections) THEN delta
    ELSE CompareSections(new_sections, i + 1, old_sections,
            IF new_sections[i].k \notin DictKeys(old_sections)
               THEN [delta EXCEPT !.additions = @ \o
                        Additions(new_sections[i].k, new_sections[i].v)]
               ELSE SectionDelta(delta, new_sections[i].k, new_sections[i].v,
                        OldBullets(DictGet(old_sections, new_sections[i].k).content,
                                   1, <<>>)))

compute_delta(old_sections, new_content) ==
    CompareSections(NewSections(new_content, 1,
                                [current_section |-> None, current_bullets |-> <<>>,
                                 new_sections |-> <<>>]),
                    1, old_sections, NoDelta)

\* apply_delta: the first line that holds the bullet id and the old text is
\* the one replaced
ApplyUpdate(st, u) ==
    LET hits == {i \in 1..Len(st.lines) :
                   /\ Mentions(st.lines[i], u.bullet_id)
                   /\ Contains(st.lines[i], strip(u.old_content))}
    IN  IF hits = {} THEN st
        ELSE [lines |-> [st.lines EXCEPT ![Least(hits)] =
                            replace(@, strip(u.old_content), strip(u.new_content))],
              changes_made |-> TRUE]

\* apply_delta: every line that holds the bullet id is left out
ApplyDeletion(st, d) ==
    [lines |-> SelectSeq(st.lines, LAMBDA line : ~Mentions(line, d.bullet_id)),
     changes_made |-> st.changes_made
                         \/ \E i \in 1..Len(st.lines) : Mentions(st.lines[i], d.bullet_id)]

\* apply_delta: "Find end of section (next ## or end of file)", the index
\* counted from 1
InsertIndex(lines, section_index) ==
    IF \E i \in (section_index + 1)..Len(lines) : HeaderMatch(lines[i])
       THEN Least({i \in (section_index + 1)..Len(lines) : HeaderMatch(lines[i])})
       ELSE Len(lines) + 1

\* lines.insert(insert_index, new_line)
Insert(lines, insert_index, new_line) ==
    SubSeq(lines, 1, insert_index - 1) \o <<new_line>>
        \o SubSeq(lines, insert_index, Len(lines))

\* apply_delta: an addition is inserted when a line matches the section pattern
ApplyAddition(st, a) ==
    LET hits == {i \in 1..Len(st.lines) : SectionMatch(st.lines[i], a.section)}
    IN  IF hits = {} THEN st
        ELSE [lines |-> Insert(st.lines, InsertIndex(st.lines, Least(hits)), a.content),
              changes_made |-> TRUE]

\* apply_delta: the loops over the lists of the delta
RECURSIVE ApplyUpdates(_, _, _)
ApplyUpdates(updates, i, st) ==
    IF i > Len(updates) THEN st
    ELSE ApplyUpdates(updates, i + 1, ApplyUpdate(st, updates[i]))

RECURSIVE ApplyDeletions(_, _, _)
ApplyDeletions(deletions, i, st) ==
    IF i > Len(deletions) THEN st
    ELSE ApplyDeletions(deletions, i + 1, ApplyDeletion(st, deletions[i]))

RECURSIVE ApplyAdditions(_, _, _)
ApplyAdditions(additions, i, st) ==
    IF i > Len(additions) THEN st
    ELSE ApplyAdditions(additions, i + 1, ApplyAddition(st, additions[i]))

\* apply_delta, the file existing: updates, then deletions, then additions
apply_delta(lines, delta) ==
    ApplyAdditions(delta.additions, 1,
        ApplyDeletions(delta.deletions, 1,
            ApplyUpdates(delta.updates, 1, [lines |-> lines, changes_made |-> FALSE])))

\* log_delta_to_history: the lines "  - [bullet_id] in 'section'" of a list
Named(list) ==
    [i \in 1..Len(list) |-> [bullet_id |-> list[i].bullet_id, section |-> list[i].section]]

\* log_delta_to_history: the entry appended
log_delta_to_history(delta) ==
    [additions |-> Len(delta.additions),
     updates |-> Len(delta.updates),
     deletions |-> Len(delta.deletions),
     added |-> Named(delta.additions),
     updated |-> Named(delta.updates),
     deleted |-> Named(delta.deletions)]

\* content.split('\n') of what write_text('\n'.join(lines)) has written:
\* the empty text is one empty line
Written(lines) == IF lines = <<>> THEN <<Text("", None)>> ELSE lines

\* what a run of update_playbook_with_delta leaves: the document, the entries
\* appended to the history, the value returned
Outcome(document, entries, ret, full, wrote, delta) ==
    [document |-> document, entries |-> entries, ret |-> ret, full |-> full,
     wrote |-> wrote, delta |-> delta]

\* apply_delta, the file existing: "if changes_made" write and log, return
\* True; else return False
Changed(document, delta, st) ==
    IF st.changes_made
       THEN Outcome([exists |-> TRUE, lines |-> Written(st.lines)],
                    <<log_delta_to_history(delta)>>, TRUE, FALSE, TRUE, delta)
       ELSE Outcome(document, <<>>, FALSE, FALSE, FALSE, delta)

\* update_playbook_with_delta: "Check if there are changes", "Apply delta"
WithDelta(document, delta) ==
    IF Len(delta.additions) + Len(delta.updates) + Len(delta.deletions) = 0
       THEN Outcome(document, <<>>, FALSE, FALSE, FALSE, delta)
       ELSE Changed(document, delta, apply_delta(document.lines, delta))

\* update_playbook_with_delta after parse_existing_playbook: without
\* sections "write full content (first time only)"
WithSections(document, old_sections, new_content) ==
    IF old_sections = <<>>
       THEN Outcome([exists |-> TRUE, lines |-> Written(new_content)], <<>>, TRUE, TRUE,
                    TRUE, NoDelta)
       ELSE WithDelta(document, compute_delta(old_sections, new_content))

update_playbook_with_delta(document, new_content) ==
    WithSections(document, parse_existing_playbook(document), new_content)

\* lines of the generated playbooks
rules == Header("##", "Rules")
types == Header("###", "Types")
useWith == Item("", "py-00001", "use with")
closeFiles == Item("", "py-00002", "close files")

\* the playbooks generated for the store as it grows and shrinks
Playbooks ==
    {<<rules, useWith, closeFiles>>,
     <<rules, useWith>>,
     <<rules, useWith, closeFiles, types, Item("", "ts-00001", "annotate")>>,
     <<rules, types, Item("", "ts-00001", "annotate")>>}

\* documents as their users write them: bullets indented, quoted or
\* mentioned in notes, a section the playbook has dropped, a document
\* without a ## heading (tests/test_playbooks.py), a bullet text of an earlier
\* playbook, a line that reads "#2, 3 Rules"
Documents ==
    {<<rules, Item(" ", "py-00001", "use with"), closeFiles>>,
     <<Text("my notes", None), Item("> ", "py-00001", "old text"), rules,
       Item("", "py-00001", "old text"), closeFiles, Header("##", "Mine"),
       Text("keep", None)>>,
     <<Text("remember", "py-00002"), rules, useWith, closeFiles>>,
     <<Header("#", "My Custom Instructions"), Text("be nice", None)>>,
     <<rules, useWith, closeFiles, Header("##", "Old"), Item("", "js-00001", "gone")>>,
     <<rules, Item("", "py-00001", "old text")>>,
     <<rules, useWith, Header("#2, 3", "Rules"), Text("keep", None),
       Header("##", "Mine")>>}

\* one run of update_playbook_with_delta
Synced(r, new_content) ==
    /\ doc' = r.document
    /\ history' = history \o r.entries
    /\ sync' = [ran |-> TRUE, n |-> sync.n + 1, new_content |-> new_content,
                before |-> doc, delta |-> r.delta, wrote |-> r.wrote, full |-> r.full,
                ret |-> r.ret]
    /\ UNCHANGED <<storeVars, procs, epochVars, trainVars, probe, lockVars>>

Sync ==
    /\ sync.n < MaxSyncs
    /\ \E new_content \in Playbooks :
          Synced(update_playbook_with_delta(doc, new_content), new_content)

\* the user saves CLAUDE.md
UserWrites ==
    /\ \E lines \in Documents : doc' = [exists |-> TRUE, lines |-> lines]
    /\ sync' = [NoSync EXCEPT !.n = sync.n]
    /\ UNCHANGED <<history, storeVars, procs, epochVars, trainVars, probe, lockVars>>

SyncNext == Sync \/ UserWrites

SyncSpec == Init /\ [][SyncNext]_vars

(***************************************************************************)
(* epoch-manager.py: the epochs of offline training.  A call works on one  *)
(* connection and SQLite lets one connection write at a time: a call is    *)
(* one step.  completed_at = 0 is NULL.                                    *)
(***************************************************************************)
\* the row INSERT INTO epochs (epoch_number, started_at, status) creates,
\* the other columns at their defaults
NewEpoch(epoch_number, started_at) ==
    [epoch_number |-> epoch_number, started_at |-> started_at, completed_at |-> 0,
     patterns_processed |-> 0, patterns_refined |-> 0,
     avg_confidence_before |-> NULL, avg_confidence_after |-> NULL,
     status |-> "running"]

\* UPDATE epochs SET status = 'completed', completed_at = ? WHERE status = 'running'
CompleteRunning(table, at) ==
    [i \in DOMAIN table |->
        IF table[i].status = "running"
           THEN [table[i] EXCEPT !.status = "completed", !.completed_at = at]
           ELSE table[i]]

\* SELECT MAX(epoch_number) FROM epochs, and "max_epoch or 0"
MaxEpoch(table) ==
    IF table = <<>> THEN 0
    ELSE CHOOSE n \in {table[i].epoch_number : i \in DOMAIN table} :
            \A i \in DOMAIN table : table[i].epoch_number <= n

\* start_epoch without the check of the limit
start_epoch_NoLimit(table, at) ==
    [epochs |-> Append(CompleteRunning(table, at), NewEpoch(MaxEpoch(table) + 1, at)),
     ret |-> MaxEpoch(table) + 1]

\* start_epoch without the UPDATE of the running epochs
start_epoch_NoComplete(table, at) ==
    IF MaxEpoch(table) + 1 > MAX_EPOCHS
       THEN [epochs |-> table, ret |-> MaxEpoch(table)]
       ELSE [epochs |-> Append(table, NewEpoch(MaxEpoch(table) + 1, at)),
             ret |-> MaxEpoch(table) + 1]

\* start_epoch: at the limit the connection is closed without a commit,
\* which undoes the UPDATE of the running epochs
start_epoch(table, at) ==
    IF MaxEpoch(table) + 1 > MAX_EPOCHS
       THEN [epochs |-> table, ret |-> MaxEpoch(table)]
       ELSE [epochs |-> Append(CompleteRunning(table, at),
                               NewEpoch(MaxEpoch(table) + 1, at)),
             ret |-> MaxEpoch(table) + 1]

\* the stats handed to complete_epoch: by offline training, or none
EpochStats ==
    {[patterns_processed |-> 2, patterns_refined |-> 1,
      avg_confidence_before |-> <<1, 2>>, avg_confidence_after |-> <<3, 4>>],
     [patterns_processed |-> 0, patterns_refined |-> 0,
      avg_confidence_before |-> <<0, 1>>, avg_confidence_after |-> <<0, 1>>]}

\* complete_epoch: UPDATE epochs SET ... WHERE epoch_number = ?
complete_epoch(table, epoch_number, stats, at) ==
    [i \in DOMAIN table |->
        IF table[i].epoch_number = epoch_number
           THEN [table[i] EXCEPT !.completed_at = at,
                                 !.patterns_processed = stats.patterns_processed,
                                 !.patterns_refined = stats.patterns_refined,
                                 !.avg_confidence_before = stats.avg_confidence_before,
                                 !.avg_confidence_after = stats.avg_confidence_after,
                                 !.status = "completed"]
           ELSE table[i]]

\* what a call of start_epoch leaves
Started(r) ==
    /\ epochs' = r.epochs
    /\ epochRet' = [call |-> "start_epoch", value |-> r.ret]

StartEpoch ==
    /\ now <= MaxCalls
    /\ Started(start_epoch(epochs, now))
    /\ now' = now + 1
    /\ UNCHANGED <<storeVars, procs, syncVars, trainVars, probe, lockVars>>

\* complete_epoch on a database that has the table
CompleteEpoch ==
    /\ now <= MaxCalls
    /\ epochs # <<>>
    /\ \E epoch_number \in 1..MAX_EPOCHS, stats \in EpochStats :
          epochs' = complete_epoch(epochs, epoch_number, stats, now)
    /\ epochRet' = [call |-> "complete_epoch", value |-> 0]
    /\ now' = now + 1
    /\ UNCHANGED <<storeVars, procs, syncVars, trainVars, probe, lockVars>>

EpochNext == StartEpoch \/ CompleteEpoch

EpochSpec == Init /\ [][EpochNext]_vars

(***************************************************************************)
(* offline-training.py: run_offline_training, one pass of its loop over    *)
(* the epochs per step, and the training cache of epoch-manager.py.  A     *)
(* pass reads the clock when it starts the epoch and when it completes it. *)
(***************************************************************************)
\* _infer_language_from_file of ace-cycle.py, which each pass reads from the
\* module (line 421) and calls for every example: the language the name of
\* the file stands for
infer_language_from_file(file_path) == "python"

\* the patterns batch_reflect_via_agent builds from an agent response: id,
\* name, domain, type 'helpful', description, confidence, and no
\* contributed_to
trainIo ==
    [id |-> "python-io-568fb", name |-> {"use", "context", "managers"},
     domain |-> "python-io", type |-> "helpful",
     description |-> {"file", "handling"}, confidence |-> <<1, 2>>]

trainAbstract ==
    [id |-> "abstract-caching", name |-> {"abstract-caching"},
     domain |-> "abstract-patterns", type |-> "helpful",
     description |-> {"reuse", "computed", "results"}, confidence |-> <<1, 2>>]

\* scan_codebase_for_training: the files of the corpus
training_data == <<"test_io.py", "test_cache.py">>

\* the response file of the agent for a file, when there is one
AgentResponse(file_path) ==
    IF file_path = "test_io.py" THEN <<trainIo, trainAbstract>> ELSE <<trainIo>>

\* batch_reflect_via_agent: the patterns of the response file, each with
\* the language it was called with; [] without a response file
batch_reflect_via_agent(answered, file_path, language) ==
    IF file_path \in answered
       THEN [i \in DOMAIN AgentResponse(file_path) |->
                AgentResponse(file_path)[i] @@ [language |-> language]]
       ELSE <<>>

\* 1 if pattern_def.get('contributed_to') == outcome else 0
Tally(pattern_def, outcome) ==
    IF "contributed_to" \in DOMAIN pattern_def /\ pattern_def["contributed_to"] = outcome
       THEN 1 ELSE 0

\* "Prepare new observation from discovered pattern"
TrainingRecord(pattern_def, file_path) ==
    [id |-> pattern_def.id, name |-> pattern_def.name, domain |-> pattern_def.domain,
     type |-> pattern_def.type, description |-> pattern_def.description,
     language |-> IF "language" \in DOMAIN pattern_def THEN pattern_def.language
                  ELSE infer_language_from_file(file_path),
     observations |-> 1,
     successes |-> Tally(pattern_def, "success"),
     failures |-> Tally(pattern_def, "failure"),
     neutrals |-> Tally(pattern_def, "neutral"),
     confidence |-> pattern_def.confidence]

\* abs(conf_after - conf_before) > 0.01
Refined(conf_before, conf_after) ==
    LET d == conf_after[1] * conf_before[2] - conf_before[1] * conf_after[2]
    IN  100 * (IF d < 0 THEN 0 - d ELSE d) > conf_after[2] * conf_before[2]

\* the row track_pattern_evolution inserts
EvolutionRow(pattern_id, epoch_number, before, after, added, applied, timestamp) ==
    [pattern_id |-> pattern_id, epoch_number |-> epoch_number,
     confidence_before |-> before, confidence_after |-> after,
     observations_added |-> added,
     refinement_applied |-> IF applied THEN 1 ELSE 0,
     timestamp |-> timestamp]

track_pattern_evolution(table, row) == Append(table, row)

\* cache_training_data: used_in_epochs takes its default '[]'
cache_training_data(table, file_path, patterns_detected, test_status, at) ==
    Append(table, [id |-> Len(table) + 1, file_path |-> file_path,
                   patterns_detected |-> patterns_detected,
                   test_status |-> test_status, cached_at |-> at,
                   used_in_epochs |-> <<>>])

\* the local variables of a pass and the tables it writes
TrainState(pats, evo, cch) ==
    [patterns |-> pats, evolution |-> evo, cache |-> cch,
     patterns_processed |-> 0, patterns_refined |-> 0, raised |-> FALSE]

\* "Merge with existing": merge, recompute, store, count, track
MergeExisting(st, existing, merged, epoch_id, at) ==
    [st EXCEPT
       !.patterns = store_pattern(st.patterns, merged).patterns,
       !.patterns_refined =
           @ + (IF Refined(existing.confidence, merged.confidence) THEN 1 ELSE 0),
       !.evolution = track_pattern_evolution(@,
                        EvolutionRow(merged.id, epoch_id, existing.confidence,
                                     merged.confidence, 1, TRUE, at))]

\* "Create new": store_pattern raises when the INSERT fails
CreateNew(st, r) ==
    IF r.ok THEN [st EXCEPT !.patterns = r.patterns, !.patterns_refined = @ + 1]
    ELSE [st EXCEPT !.raised = TRUE]

\* one pass of the loop over the discovered patterns of an example;
\* existing is looked up in the rows read before the loop
TrainPattern(st, existing, new_pattern, epoch_id, at) ==
    IF existing # NoRow
       THEN MergeExisting(st, existing,
                          WithCycleConfidence(merge_patterns(existing, new_pattern)),
                          epoch_id, at)
       ELSE CreateNew(st, store_pattern(st.patterns, WithCycleConfidence(new_pattern)))

RECURSIVE TrainPatterns(_, _, _, _, _, _, _)
TrainPatterns(discovered, i, existing_patterns, file_path, epoch_id, at, st) ==
    IF i > Len(discovered) \/ st.raised THEN st
    ELSE TrainPatterns(discovered, i + 1, existing_patterns, file_path, epoch_id, at,
            TrainPattern(st, get_pattern(existing_patterns, discovered[i].id),
                         TrainingRecord(discovered[i], file_path), epoch_id, at))

\* the ids of the discovered patterns
DetectedIds(discovered) == [i \in DOMAIN discovered |-> discovered[i].id]

\* the end of the pass over an example: "Cache for future epochs"
Cached(st, file_path, discovered, at) ==
    IF st.raised THEN st
    ELSE [st EXCEPT !.cache = cache_training_data(@, file_path,
                                  DetectedIds(discovered), "passed", at)]

\* one training example: nothing happens when nothing was discovered
TrainExample(st, file_path, discovered, epoch_id, at) ==
    IF discovered = <<>> THEN st
    ELSE Cached(TrainPatterns(discovered, 1, st.patterns, file_path, epoch_id, at,
                   [st EXCEPT !.patterns_processed = @ + Len(discovered)]),
                file_path, discovered, at)

RECURSIVE TrainExamples(_, _, _, _, _)
TrainExamples(i, answered, epoch_id, at, st) ==
    IF i > Len(training_data) \/ st.raised THEN st
    ELSE TrainExamples(i + 1, answered, epoch_id, at,
            TrainExample(st, training_data[i],
                         batch_reflect_via_agent(answered, training_data[i],
                            infer_language_from_file(training_data[i])),
                         epoch_id, at))

\* the sum of the confidences of the rows ids, as a fraction
RECURSIVE SumConfidence(_, _)
SumConfidence(pats, ids) ==
    IF ids = {} THEN <<0, 1>>
    ELSE LET id == CHOOSE x \in ids : TRUE
             rest == SumConfidence(pats, ids \ {id})
             c == pats[id].confidence
         IN  <<c[1] * rest[2] + rest[1] * c[2], c[2] * rest[2]>>

\* sum(p.get('confidence', 0) for p in patterns) / max(len(patterns), 1)
AvgConfidence(pats) ==
    <<SumConfidence(pats, DOMAIN pats)[1],
      SumConfidence(pats, DOMAIN pats)[2] * Max(Cardinality(DOMAIN pats), 1)>>

\* the stats a pass hands to complete_epoch
PassStats(st, pats) ==
    [patterns_processed |-> st.patterns_processed,
     patterns_refined |-> st.patterns_refined,
     avg_confidence_before |-> AvgConfidence(pats),
     avg_confidence_after |-> AvgConfidence(st.patterns)]

\* the end of a pass: complete_epoch, unless store_pattern raised
PassEnd(started, st, pats, at) ==
    [patterns |-> st.patterns, evolution |-> st.evolution, cache |-> st.cache,
     epochs |-> IF st.raised THEN started.epochs
                ELSE complete_epoch(started.epochs, started.ret,
                                    PassStats(st, pats), at + 1),
     epoch_id |-> started.ret, raised |-> st.raised]

\* one pass of "for epoch_num in range(1, epochs + 1)"
TrainingPass(started, pats, evo, cch, answered, at) ==
    PassEnd(started,
            TrainExamples(1, answered, started.ret, at, TrainState(pats, evo, cch)),
            pats, at)

\* what a pass leaves
Trained(r) ==
    /\ patterns' = r.patterns
    /\ evolution' = r.evolution
    /\ cache' = r.cache
    /\ epochs' = r.epochs
    /\ trainRet' = [call |-> "run_offline_training", epoch |-> r.epoch_id,
                    data |-> {}, raised |-> r.raised]

TrainEpoch ==
    /\ now + 1 <= MaxCalls
    /\ \E answered \in SUBSET Range(training_data) :
          Trained(TrainingPass(start_epoch(epochs, now), patterns, evolution, cache,
                               answered, now))
    /\ dbExists' = TRUE
    /\ now' = now + 2
    /\ UNCHANGED <<insights, insightSeq, observations, observationSeq, sessionPc,
                   decisions, run, pruned, used, epochRet, procs, syncVars, probe,
                   lockVars>>

\* the decimal digits of a number, as str() writes them
RECURSIVE Digits(_)
Digits(n) == IF n < 10 THEN <<n>> ELSE Append(Digits(n \div 10), n % 10)

\* text LIKE '%' || part || '%' on digit strings
Infix(part, text) ==
    \E k \in 0..(Len(text) - Len(part)) : SubSeq(text, k + 1, k + Len(part)) = part

\* used_in_epochs LIKE '%' || str(epoch_number) || '%' on the text
\* json.dumps writes: digits occur in it only inside the numbers of the list
LikeEpoch(used_in_epochs, epoch_number) ==
    \E k \in DOMAIN used_in_epochs :
        Infix(Digits(epoch_number), Digits(used_in_epochs[k]))

\* ORDER BY cached_at DESC LIMIT 100: every row found when there are at
\* most 100, else 100 of them with the latest cached_at
Limit(table, found) ==
    IF Cardinality(found) <= TRAINING_LIMIT THEN found
    ELSE CHOOSE some \in SUBSET found :
            /\ Cardinality(some) = TRAINING_LIMIT
            /\ \A i \in some, j \in found \ some :
                  table[i].cached_at >= table[j].cached_at

\* the rows the SELECT without its WHERE clause returns
Selected_NoFilter(table, epoch_number) == Limit(table, DOMAIN table)

\* SELECT * FROM training_cache WHERE NOT (used_in_epochs LIKE ...)
Selected(table, epoch_number) ==
    Limit(table, {i \in DOMAIN table :
                     ~LikeEpoch(table[i].used_in_epochs, epoch_number)})

\* "Mark as used in this epoch": json.loads, append, json.dumps
MarkUsed(table, rows, epoch_number) ==
    [i \in DOMAIN table |->
        IF i \in rows
           THEN [table[i] EXCEPT !.used_in_epochs = Append(@, epoch_number)]
           ELSE table[i]]

get_training_data_for_epoch(table, epoch_number) ==
    IF epoch_number = 1 THEN [data |-> {}, cache |-> table]
    ELSE [data |-> {table[i].id : i \in Selected(table, epoch_number)},
          cache |-> MarkUsed(table, Selected(table, epoch_number), epoch_number)]

\* the epoch numbers start_epoch hands out
EpochNumbers == 1..MAX_EPOCHS

Replayed(epoch_number, r) ==
    /\ cache' = r.cache
    /\ trainRet' = [call |-> "get_training_data_for_epoch", epoch |-> epoch_number,
                    data |-> r.data, raised |-> FALSE]

GetTrainingData ==
    /\ now <= MaxCalls
    /\ cache # <<>>
    /\ \E epoch_number \in EpochNumbers :
          Replayed(epoch_number, get_training_data_for_epoch(cache, epoch_number))
    /\ now' = now + 1
    /\ UNCHANGED <<storeVars, procs, syncVars, epochs, epochRet, evolution, probe,
                   lockVars>>

TrainNext == TrainEpoch \/ GetTrainingData

TrainSpec == Init /\ [][TrainNext]_vars

(***************************************************************************)
(* epoch-manager.py start_epoch as a process.  Nothing in the script       *)
(* keeps two calls apart; SQLite does: the UPDATE, the first statement of  *)
(* the call, opens a transaction and takes the write lock of the database, *)
(* which one connection holds at a time, until the commit or the close.    *)
(* A connection that finds the lock taken waits, and raises                *)
(* sqlite3.OperationalError when the wait times out.  What a transaction   *)
(* has written is seen by its own connection only, until the commit.       *)
(***************************************************************************)
\* the write lock is granted whoever holds it
Free_Unlocked(holder) == TRUE

\* the write lock can be taken: no connection holds it
Free(holder) == holder = 0

InStartEpoch(p) == starts[p].pc \in {"update", "select", "commit"}

\* the table as the connection of p sees it after its UPDATE
View(p) == CompleteRunning(epochs, starts[p].at)

\* start_epoch is called: init_epochs_table, connect
CallStartEpoch(p) ==
    /\ ~InStartEpoch(p)
    /\ now <= MaxCalls
    /\ starts' = [starts EXCEPT ![p] = [NoStart EXCEPT !.pc = "update"]]
    /\ now' = now + 1
    /\ UNCHANGED <<storeVars, procs, syncVars, epochs, epochRet, trainVars, probe, writer>>

\* "Complete any running epochs": the UPDATE, with the write lock
UpdateRunning(p) ==
    /\ starts[p].pc = "update"
    /\ Free(writer)
    /\ writer' = p
    /\ starts' = [starts EXCEPT ![p].pc = "select", ![p].at = now]
    /\ UNCHANGED <<storeVars, procs, syncVars, epochVars, trainVars, probe>>

\* the UPDATE gives up waiting for the lock: the call raises
LockTimeout(p) ==
    /\ starts[p].pc = "update"
    /\ ~Free(writer)
    /\ starts' = [starts EXCEPT ![p].pc = "raised"]
    /\ UNCHANGED <<storeVars, procs, syncVars, epochVars, trainVars, probe, writer>>

\* SELECT MAX(epoch_number), the check of the limit and the INSERT; at the
\* limit the connection is closed, which rolls the UPDATE back
SelectAndInsert(p) ==
    /\ starts[p].pc = "select"
    /\ IF MaxEpoch(View(p)) + 1 > MAX_EPOCHS
          THEN /\ starts' = [starts EXCEPT ![p].pc = "done",
                                           ![p].ret = MaxEpoch(View(p))]
               /\ writer' = 0
          ELSE /\ starts' = [starts EXCEPT
                                ![p].pc = "commit",
                                ![p].row = NewEpoch(MaxEpoch(View(p)) + 1, now),
                                ![p].ret = MaxEpoch(View(p)) + 1]
               /\ UNCHANGED writer
    /\ UNCHANGED <<storeVars, procs, syncVars, epochVars, trainVars, probe>>

\* conn.commit(): the UPDATE and the INSERT reach the database, the lock is released
CommitEpoch(p) ==
    /\ starts[p].pc = "commit"
    /\ epochs' = Append(View(p), starts[p].row)
    /\ epochRet' = [call |-> "start_epoch", value |-> starts[p].ret]
    /\ writer' = 0
    /\ starts' = [starts EXCEPT ![p].pc = "done"]
    /\ UNCHANGED <<storeVars, procs, syncVars, now, trainVars, probe>>

StartNext ==
    \E p \in Callers :
        \/ CallStartEpoch(p)
        \/ UpdateRunning(p)
        \/ LockTimeout(p)
        \/ SelectAndInsert(p)
        \/ CommitEpoch(p)

\* start_epoch called by processes that overlap
StartSpec == Init /\ [][StartNext]_vars

(***************************************************************************)
(* convergence-checker.py: has_converged reads the row of a pattern and    *)
(* the confidences of its insights, here in hundredths and in the order    *)
(* of their timestamps.                                                    *)
(***************************************************************************)
\* the rows of the SELECT without its LIMIT
Recent_NoLimit(snapshots) ==
    [i \in 1..Len(snapshots) |-> snapshots[Len(snapshots) - i + 1]]

\* SELECT confidence FROM insights WHERE pattern_id = ?
\* ORDER BY timestamp DESC LIMIT 10
Recent(snapshots) ==
    [i \in 1..(IF Len(snapshots) < RECENT_INSIGHTS THEN Len(snapshots)
               ELSE RECENT_INSIGHTS) |-> snapshots[Len(snapshots) - i + 1]]

\* sum(recent_confidences)
RECURSIVE SumOf(_, _)
SumOf(cs, i) == IF i > Len(cs) THEN 0 ELSE cs[i] + SumOf(cs, i + 1)

\* sum((c - mean_conf) ** 2 for c in recent_confidences) with mean_conf =
\* total / n, times n * n
RECURSIVE SquaredDeviations(_, _, _)
SquaredDeviations(cs, i, total) ==
    IF i > Len(cs) THEN 0
    ELSE (Len(cs) * cs[i] - total) * (Len(cs) * cs[i] - total)
            + SquaredDeviations(cs, i + 1, total)

\* std_dev < CONFIDENCE_VARIANCE_THRESHOLD with std_dev = variance ** 0.5 and
\* variance = (the sum of the squared deviations) / n
Converged(cs) ==
    SquaredDeviations(cs, 1, SumOf(cs, 1))
       < CONFIDENCE_VARIANCE_THRESHOLD * CONFIDENCE_VARIANCE_THRESHOLD
            * Len(cs) * Len(cs) * Len(cs)

\* the tuple has_converged returns
Verdict(converged, confidence, reason) ==
    [converged |-> converged, confidence |-> confidence, reason |-> reason]

\* what has_converged does once the row is read
Judge(pattern, recent_confidences) ==
    IF pattern.observations < MIN_OBSERVATIONS_FOR_CONVERGENCE
       THEN Verdict(FALSE, pattern.confidence, "Need more observations")
    ELSE IF Len(recent_confidences) < MIN_INSIGHT_HISTORY
       THEN Verdict(FALSE, pattern.confidence, "Need more insight history")
    ELSE IF Converged(recent_confidences)
       THEN Verdict(TRUE, pattern.confidence, "Converged")
    ELSE Verdict(FALSE, pattern.confidence, "Still learning")

has_converged(db_exists, pattern, snapshots) ==
    IF ~db_exists THEN Verdict(FALSE, <<0, 1>>, "No database")
    ELSE IF pattern = NoRow THEN Verdict(FALSE, <<0, 1>>, "Pattern not found")
    ELSE Judge(pattern, Recent(snapshots))

\* the row of the pattern asked about: none, or one short of, at or above
\* the observations asked for
ConvergenceRows ==
    {NoRow} \cup {[id |-> "py-004", observations |-> n, confidence |-> <<1, 2>>] :
                     n \in {MIN_OBSERVATIONS_FOR_CONVERGENCE - 1,
                            MIN_OBSERVATIONS_FOR_CONVERGENCE,
                            MIN_OBSERVATIONS_FOR_CONVERGENCE + 5}}

\* the confidences of the insights of the pattern, oldest first
Histories == UNION {[1..n -> {40, 55}] : n \in 0..MaxSnapshots}

\* the databases has_converged may find
ConvergenceInputs ==
    {[db_exists |-> FALSE, pattern |-> NoRow, snapshots |-> <<>>]}
       \cup {[db_exists |-> TRUE, pattern |-> pattern, snapshots |-> snapshots] :
                pattern \in ConvergenceRows, snapshots \in Histories}

\* one call of has_converged on a database drawn from ConvergenceInputs
HasConverged ==
    /\ probe = NoProbe
    /\ \E in \in ConvergenceInputs :
          probe' = [fn |-> "has_converged", db_exists |-> in.db_exists,
                    pattern |-> in.pattern, snapshots |-> in.snapshots,
                    ret |-> has_converged(in.db_exists, in.pattern, in.snapshots)]
    /\ UNCHANGED <<storeVars, procs, syncVars, epochVars, trainVars, lockVars>>

ConvSpec == Init /\ [][HasConverged]_vars

(***************************************************************************)
(* ace-cycle.py: calculate_similarity called on its own.  Its try block    *)
(* ends in the except branch: the import of line 862 raises, or, were an   *)
(* engine installed, its call of line 872 could.                           *)
(***************************************************************************)
EngineFailures == {"ImportError", "engine call raised"}

\* names and descriptions as sets of lower-cased words, the empty text included
SimilarityPatterns ==
    [name : SUBSET {"use", "context", "managers"}, description : SUBSET {"close", "files"}]

\* one call of calculate_similarity
CalculateSimilarity ==
    /\ probe = NoProbe
    /\ \E pattern1 \in SimilarityPatterns, pattern2 \in SimilarityPatterns, e \in EngineFailures :
          probe' = [fn |-> "calculate_similarity", pattern1 |-> pattern1,
                    pattern2 |-> pattern2, engine |-> e,
                    ret |-> calculate_similarity(pattern1, pattern2)]
    /\ UNCHANGED <<storeVars, procs, syncVars, epochVars, trainVars, lockVars>>

SimSpec == Init /\ [][CalculateSimilarity]_vars

\* rows as both scripts read them from table patterns: names and
\* descriptions as sets of lower-cased words, the empty text included
ComparedPatterns ==
    [name : SUBSET {"use", "context"},
     description : SUBSET {"close", "files", "when", "done"}]

\* the same pair of rows scored by the curator of ace-cycle.py and by
\* ace-session-end.py
CompareSimilarity ==
    /\ probe = NoProbe
    /\ \E pattern1 \in ComparedPatterns, pattern2 \in ComparedPatterns :
          probe' = [fn |-> "similarity", pattern1 |-> pattern1, pattern2 |-> pattern2,
                    curator |-> calculate_similarity(pattern1, pattern2),
                    session_end |-> calculate_similarity_session_end(pattern1, pattern2)]
    /\ UNCHANGED <<storeVars, procs, syncVars, epochVars, trainVars, lockVars>>

EquivSpec == Init /\ [][CompareSimilarity]_vars

(***************************************************************************)
(* Properties.  A step of ace-cycle.py that reached the curation loop is   *)
(* one that leaves run'.signal true; the prune step of the session end is  *)
(* the one that leaves sessionPc = "prune".                                *)
(***************************************************************************)

\* C1: after every mutation of a pattern row (cycle create or merge, feedback,
\* deduplication, smart import) the stored confidence equals
\* (successes + helpful_count) / max(observations + helpful_count + harmful_count, 1),
\* also for rows whose helpful_count or harmful_count is not zero.
C1_ConfidenceFormula ==
    \A id \in DOMAIN patterns :
        ConfEq(patterns[id].confidence, FeedbackConfidence(patterns[id]))

\* C2: when a cycle observes a pattern whose id is not in the store and curate
\* returns merge with target P1, the cycle adds the observation's counts to P1
\* (P1.observations grows by exactly 1) and creates no row for the observed id.
C2_MergeIntoTarget ==
    [][run'.signal =>
         \A k \in 1..Len(decisions') :
            LET d == decisions'[k]
            IN  (d.action = "merge" /\ d.id \notin DOMAIN patterns) =>
                   /\ d.id \notin DOMAIN patterns'
                   /\ d.target_id \in DOMAIN patterns'
                   /\ patterns'[d.target_id].observations
                         = patterns[d.target_id].observations + 1]_vars

\* C3: curate returns merge if and only if some existing row of the same domain
\* and the same type as the new observation has similarity >= 0.85 to it; the
\* target is then a row of maximal similarity among the rows of that domain and
\* type, so a row of another domain or type is never the target.
C3_MergeIffSimilar ==
    [][run'.signal =>
         \A k \in 1..Len(decisions') :
            LET d == decisions'[k]
                new_pattern == CHOOSE p \in Range(PATTERNS) : p.id = d.id
                candidates == {id \in DOMAIN patterns :
                                  /\ patterns[id].domain = new_pattern.domain
                                  /\ patterns[id].type = new_pattern.type}
                sim(id) == calculate_similarity(new_pattern, patterns[id])
            IN  /\ d.action = "merge" <=>
                      \E id \in candidates :
                          RatGE(sim(id), <<SIMILARITY_THRESHOLD, 100>>)
                /\ d.action = "merge" =>
                      /\ d.target_id \in candidates
                      /\ LET best == sim(d.target_id)
                         IN  \A id \in candidates : RatGE(best, sim(id))]_vars

\* a cycle merged into io-001 (similarity 0.94) while rows of the very text of
\* the observation, but of the other type (io-002) and of another domain
\* (io-003), were stored
C3_Witness ==
    /\ {"io-001", "io-002", "io-003"} \subseteq DOMAIN patterns
    /\ \E k \in 1..Len(decisions) :
          decisions[k].action = "merge" /\ decisions[k].target_id = "io-001"

\* C4: no row is deleted by pruning (a prune decision of curate in a cycle, or
\* prune_low_confidence at session end) while its observations are below 10,
\* whatever its confidence.
C4_NoPruneBelowFloor ==
    [][(run'.signal \/ sessionPc = "prune") =>
          \A id \in DOMAIN patterns \ DOMAIN patterns' :
              patterns[id].observations >= MIN_OBSERVATIONS]_vars

\* prune_low_confidence deleted a row and spared a row of confidence below 0.30
\* that has fewer than 10 observations
C4_Witness ==
    /\ pruned # {}
    /\ \E id \in DOMAIN patterns :
          /\ patterns[id].observations < MIN_OBSERVATIONS
          /\ SqlLess(patterns[id].confidence, PRUNE_THRESHOLD)

C6_PruneOnAggregate ==
    [][run'.signal =>
         \A k \in 1..Len(decisions') :
            LET d == decisions'[k]
                new_pattern == NewPattern(CHOOSE p \in Range(PATTERNS) : p.id = d.id,
                                          d.contributed_to)
                aggregate == IF d.id \in DOMAIN patterns THEN patterns[d.id]
                             ELSE new_pattern
            IN  (/\ d.action # "merge"
                 /\ aggregate.observations >= MIN_OBSERVATIONS
                 /\ SqlLess(aggregate.confidence, PRUNE_THRESHOLD))
                => d.action = "prune"]_vars

\* C7: merge_patterns(target, source) yields observations, successes, failures
\* and neutrals equal to the component-wise sums of its inputs, and merging the
\* same observation records into a row in either order yields the same counts
\* and the same confidence; stated of every row a cycle has merged into and of
\* every pair of records a cycle can build.
C7_MergeSums ==
    \A k \in 1..Len(decisions) :
        (decisions[k].action = "merge" /\ decisions[k].id \in DOMAIN patterns) =>
            \A a, b \in ObservationRecords :
                LET t == patterns[decisions[k].id]
                    m == merge_patterns(t, a)
                    ab == merge_patterns(m, b)
                    ba == merge_patterns(merge_patterns(t, b), a)
                IN  /\ m.observations = t.observations + a.observations
                    /\ m.successes = t.successes + a.successes
                    /\ m.failures = t.failures + a.failures
                    /\ m.neutrals = t.neutrals + a.neutrals
                    /\ ab.observations = ba.observations
                    /\ ab.successes = ba.successes
                    /\ ab.failures = ba.failures
                    /\ ab.neutrals = ba.neutrals
                    /\ CycleConfidence(ab) = CycleConfidence(ba)

\* a cycle merged a failed observation into a row that already had failures
C7_Witness ==
    \E k \in 1..Len(decisions) :
        /\ decisions[k].action = "merge"
        /\ decisions[k].contributed_to = "failure"
        /\ decisions[k].id \in DOMAIN patterns
        /\ patterns[decisions[k].id].failures >= 2

\* C8: in every reachable state every insight row and every observation row
\* carries the id of a row of table patterns, after any sequence of cycles and
\* session-end cleanups: a cycle or a session-end step that starts with every
\* row owned ends with every row owned.
C8_RowsOwned ==
    [][(/\ run'.signal \/ sessionPc # sessionPc'
        /\ \A r \in insights \cup observations : r.pattern_id \in DOMAIN patterns)
       => \A r \in insights' \cup observations' : r.pattern_id \in DOMAIN patterns']_vars

\* C9: generate_bullet_id gives a new pattern a bullet_id that no stored row
\* has, so creating a pattern with a new id always succeeds (no cycle ends in a
\* store error), and the stored bullet_ids are pairwise distinct.
C9_BulletIdFresh ==
    /\ run.failure # "store"
    /\ \A id1, id2 \in DOMAIN patterns :
          id1 # id2 => patterns[id1].bullet_id # patterns[id2].bullet_id

C11_OneRunAtATime ==
    Cardinality({p \in Procs : Running(p)}) <= 1

\* the last pattern a finished run has handled
LastId(p) == procs[p].detected[procs[p].i].id

\* C12: when two runs that both found the same pattern stored have ended, the
\* row counts both observations: at least two more than the smaller of the
\* counts the two runs have read.
C12_NoLostUpdate ==
    \A p, q \in Procs :
        (/\ p # q
         /\ procs[p].pc = "done" /\ procs[q].pc = "done"
         /\ procs[p].existing # NoRow /\ procs[q].existing # NoRow
         /\ LastId(p) = LastId(q)
         /\ LastId(p) \in DOMAIN patterns
         /\ procs[p].existing.observations <= procs[q].existing.observations)
        => patterns[LastId(p)].observations >= procs[p].existing.observations + 2

(***************************************************************************)
(* Properties of the document synchronizer (SyncSpec).  sync records the   *)
(* last run on the document as it is: the document before the run, the     *)
(* playbook handed in, what the run did.  A step of a run is one that      *)
(* counts sync.n up.                                                       *)
(***************************************************************************)
\* the bullets of one section: section, id and text
SectionBullets(s) ==
    {[section |-> s.k, bullet_id |-> s.v.content[j].id, text |-> s.v.content[j].text] :
        j \in {j \in 1..Len(s.v.content) :
                  extract_bullet_content(strip(s.v.content[j])) # None}}

\* the bullets a text holds in its sections
BulletsOf(lines) ==
    UNION {SectionBullets(Sections(lines)[i]) : i \in 1..Len(Sections(lines))}

\* bullet b has a bullet of the same id in the same section among bs
Has(bs, b) == \E x \in bs : x.section = b.section /\ x.bullet_id = b.bullet_id

\* C13: a run of update_playbook_with_delta that follows a run with the same
\* playbook (nothing else having touched the document) writes nothing to the
\* document and appends nothing to the history.
C13_SecondRunWritesNothing ==
    [][(sync.ran /\ sync'.n = sync.n + 1 /\ sync'.new_content = sync.new_content)
          => (~sync'.wrote /\ history' = history)]_vars

\* C14: when the playbook differs from the document in the text of one
\* bullet only, the run changes the line of that bullet to the new text and
\* no other line.
C14_OnlyTheBulletLine ==
    sync.ran =>
        \A old \in BulletsOf(sync.before.lines), new \in BulletsOf(sync.new_content) :
            (/\ old.section = new.section /\ old.bullet_id = new.bullet_id
             /\ old.text # new.text
             /\ BulletsOf(sync.before.lines) \ {old} = BulletsOf(sync.new_content) \ {new})
            => /\ Len(doc.lines) = Len(sync.before.lines)
               /\ \A i \in 1..Len(doc.lines) :
                     doc.lines[i] =
                        IF extract_bullet_content(strip(sync.before.lines[i])) = old.bullet_id
                           THEN [sync.before.lines[i] EXCEPT !.text = new.text]
                           ELSE sync.before.lines[i]

\* the lines of a text other than the lines of bullet b
Others(lines, b) ==
    SelectSeq(lines, LAMBDA line : extract_bullet_content(strip(line)) # b.bullet_id)

\* C15: when the playbook has one bullet more (in a section the document
\* has) or one bullet less than the document, every line other than that
\* bullet's line reads after the run as it did before.
C15_OtherLinesKept ==
    sync.ran =>
        \A b \in BulletsOf(sync.before.lines) \cup BulletsOf(sync.new_content) :
            (\/ /\ ~Has(BulletsOf(sync.before.lines), b)
                /\ b.section \in DictKeys(Sections(sync.before.lines))
                /\ BulletsOf(sync.new_content) = BulletsOf(sync.before.lines) \cup {b}
             \/ /\ ~Has(BulletsOf(sync.new_content), b)
                /\ BulletsOf(sync.before.lines) = BulletsOf(sync.new_content) \cup {b})
            => Others(doc.lines, b) = Others(sync.before.lines, b)

\* C16: a run writes the whole document only when no document file exists.
C16_FullWriteOnlyWithoutFile ==
    (sync.ran /\ sync.full) => ~sync.before.exists

\* C17: after a run every bullet of the playbook that the document did not
\* hold in that section is in the document, in its section.
C17_AdditionsPresent ==
    sync.ran =>
        \A b \in BulletsOf(sync.new_content) :
            ~Has(BulletsOf(sync.before.lines), b) => Has(BulletsOf(doc.lines), b)

\* C18: after a run no section of the document holds a bullet that the
\* document held there before and the playbook does not hold there.
C18_DeletionsRemoved ==
    sync.ran =>
        \A b \in BulletsOf(sync.before.lines) :
            ~Has(BulletsOf(sync.new_content), b) => ~Has(BulletsOf(doc.lines), b)

\* the bullets of text a that text b does not hold, by section and id
Extra(a, b) ==
    {[bullet_id |-> x.bullet_id, section |-> x.section] :
        x \in {x \in BulletsOf(a) : ~Has(BulletsOf(b), x)}}

\* the bullets both texts hold, with different text
Differing(a, b) ==
    {[bullet_id |-> x.bullet_id, section |-> x.section] :
        x \in {x \in BulletsOf(a) : Has(BulletsOf(b), x) /\ x \notin BulletsOf(b)}}

\* history entry e names the edits that lead from text a to text b
NamesEdits(e, a, b) ==
    /\ Range(e.added) = Extra(b, a) /\ e.additions = Cardinality(Extra(b, a))
    /\ Range(e.deleted) = Extra(a, b) /\ e.deletions = Cardinality(Extra(a, b))
    /\ Range(e.updated) = Differing(a, b) /\ e.updates = Cardinality(Differing(a, b))

\* C19: a run that changes the document by edits of bullets appends one
\* entry to the history, whose counts and lists name the edits made; a run
\* that changes nothing appends none; the entries there were stay as they are.
C19_HistoryNamesAppliedEdits ==
    [][(sync'.n = sync.n + 1 /\ ~sync'.full) =>
          IF doc' # doc
             THEN /\ Len(history') = Len(history) + 1
                  /\ SubSeq(history', 1, Len(history)) = history
                  /\ NamesEdits(history'[Len(history')], doc.lines, doc'.lines)
             ELSE history' = history]_vars

(***************************************************************************)
(* Properties of the epochs (EpochSpec).                                   *)
(***************************************************************************)
\* C20: no call of start_epoch leaves a row with an epoch number above
\* MAX_EPOCHS; a call made when the row of epoch MAX_EPOCHS exists inserts
\* no row and returns MAX_EPOCHS.
C20_EpochsCapped ==
    [][(now' = now + 1 /\ epochRet'.call = "start_epoch") =>
          /\ \A i \in DOMAIN epochs' : epochs'[i].epoch_number <= MAX_EPOCHS
          /\ (\E i \in DOMAIN epochs : epochs[i].epoch_number = MAX_EPOCHS)
                => (Len(epochs') = Len(epochs) /\ epochRet'.value = MAX_EPOCHS)]_vars

\* the last call was a start_epoch made when epoch MAX_EPOCHS had been
\* started by an earlier call
C20_Witness ==
    /\ epochRet = [call |-> "start_epoch", value |-> MAX_EPOCHS]
    /\ Len(epochs) = MAX_EPOCHS
    /\ \E i \in DOMAIN epochs : /\ epochs[i].epoch_number = MAX_EPOCHS
                                 /\ epochs[i].started_at < now - 1

\* the epochs with status 'running'
RunningEpochs(table) == {i \in DOMAIN table : table[i].status = "running"}

\* C21: in every state reached by calls of start_epoch and complete_epoch
\* at most one row of epochs has status 'running'.
C21_OneRunningEpoch == Cardinality(RunningEpochs(epochs)) <= 1

\* a start_epoch has completed the epoch that ran and started the next one
C21_Witness ==
    /\ epochRet.call = "start_epoch"
    /\ Cardinality(RunningEpochs(epochs)) = 1
    /\ \E i \in DOMAIN epochs :
          /\ epochs[i].status = "completed"
          /\ epochs[i].patterns_processed = 0
          /\ epochs[i].completed_at = now - 1
          /\ \E j \in RunningEpochs(epochs) : epochs[j].started_at = now - 1

\* C22: after every call of start_epoch, the calls answered with the last
\* epoch number at the limit included, every epoch that was running before
\* the call is completed and has an end timestamp.
C22_RunningCompleted ==
    [][(now' = now + 1 /\ epochRet'.call = "start_epoch") =>
          \A i \in RunningEpochs(epochs) :
             /\ epochs'[i].status = "completed"
             /\ epochs'[i].completed_at # 0]_vars

\* C23: a completed epoch stays completed, and no later call of
\* start_epoch or complete_epoch changes its statistics (processed and
\* refined counts, confidence before and after) or its end timestamp.
C23_CompletedIsFinal ==
    [][\A i \in DOMAIN epochs :
          epochs[i].status = "completed" =>
             /\ epochs'[i].status = "completed"
             /\ epochs'[i].completed_at = epochs[i].completed_at
             /\ epochs'[i].patterns_processed = epochs[i].patterns_processed
             /\ epochs'[i].patterns_refined = epochs[i].patterns_refined
             /\ epochs'[i].avg_confidence_before = epochs[i].avg_confidence_before
             /\ epochs'[i].avg_confidence_after = epochs[i].avg_confidence_after]_vars

(***************************************************************************)
(* Properties of offline training (TrainSpec).                             *)
(***************************************************************************)
\* C24: get_training_data_for_epoch(N) returns a cache entry only if N is
\* not in the entry's used_in_epochs and records N in every entry it
\* returns, and in no other; so no entry is returned twice for the same
\* epoch number (no number is recorded twice), and an entry that has not
\* been replayed in epoch N (N from 2 to MAX_EPOCHS) is returned for N
\* whatever other epoch numbers it has been replayed in.
C24_ReplayOncePerEpoch ==
    [][(now' = now + 1 /\ trainRet'.call = "get_training_data_for_epoch") =>
          \A i \in DOMAIN cache :
             /\ cache[i].id \in trainRet'.data =>
                   /\ trainRet'.epoch \notin Range(cache[i].used_in_epochs)
                   /\ cache'[i].used_in_epochs =
                         Append(cache[i].used_in_epochs, trainRet'.epoch)
             /\ cache[i].id \notin trainRet'.data => cache'[i] = cache[i]
             /\ \A j, k \in DOMAIN cache'[i].used_in_epochs :
                   j # k => cache'[i].used_in_epochs[j] # cache'[i].used_in_epochs[k]
             /\ (/\ trainRet'.epoch > 1
                 /\ trainRet'.epoch \notin Range(cache[i].used_in_epochs)
                 /\ Len(cache) <= TRAINING_LIMIT)
                   => cache[i].id \in trainRet'.data]_vars

\* a call has returned an entry that had been replayed in another epoch and
\* has left out an entry already replayed in this one
C24_Witness ==
    /\ trainRet.call = "get_training_data_for_epoch"
    /\ \E i, j \in DOMAIN cache :
          /\ cache[i].id \in trainRet.data
          /\ Len(cache[i].used_in_epochs) = 2
          /\ cache[j].id \notin trainRet.data
          /\ trainRet.epoch \in Range(cache[j].used_in_epochs)

\* the rows a pass has appended to pattern_evolution for a pattern
NewRecords(pattern_id) ==
    {k \in (Len(evolution) + 1)..Len(evolution') :
         evolution'[k].pattern_id = pattern_id}

\* how often a pass has created or merged a pattern
Touches(pattern_id) ==
    patterns'[pattern_id].observations -
       (IF pattern_id \in DOMAIN patterns THEN patterns[pattern_id].observations ELSE 0)

\* C25: a training pass appends, for every pattern it creates or merges,
\* one row of pattern_evolution per touch, with the number of the epoch of
\* the pass and the confidence before and after, and refinement_applied is
\* set in a row exactly when the two confidences differ by more than 0.01.
C25_EvolutionRecorded ==
    [][(now' = now + 2 /\ trainRet'.call = "run_offline_training") =>
          \A id \in DOMAIN patterns' :
             /\ Cardinality(NewRecords(id)) = Touches(id)
             /\ \A k \in NewRecords(id) :
                   /\ evolution'[k].epoch_number = trainRet'.epoch
                   /\ evolution'[k].refinement_applied = 1 <=>
                         Refined(evolution'[k].confidence_before,
                                 evolution'[k].confidence_after)]_vars

(***************************************************************************)
(* Properties of the convergence check (ConvSpec).                         *)
(***************************************************************************)
\* the last RECENT_INSIGHTS snapshots of a history
LastSnapshots(snapshots) ==
    SubSeq(snapshots, Max(1, Len(snapshots) - RECENT_INSIGHTS + 1), Len(snapshots))

RECURSIVE SumOfSquares(_, _)
SumOfSquares(cs, i) == IF i > Len(cs) THEN 0 ELSE cs[i] * cs[i] + SumOfSquares(cs, i + 1)

\* the standard deviation of cs is below 0.05: n * sum(c^2) - sum(c)^2 is
\* below (0.05 * n)^2, in hundredths
DeviationBelowThreshold(cs) ==
    Len(cs) * SumOfSquares(cs, 1) - SumOf(cs, 1) * SumOf(cs, 1) < 25 * Len(cs) * Len(cs)

\* what the claim says has_converged reports for a call
ShouldConverge(call) ==
    /\ call.db_exists
    /\ call.pattern # NoRow
    /\ call.pattern.observations >= 20
    /\ Len(call.snapshots) >= 5
    /\ DeviationBelowThreshold(LastSnapshots(call.snapshots))

\* C26: has_converged reports converged exactly when the pattern has at
\* least 20 observations and at least 5 insight history and the standard
\* deviation of its 10 most recent snapshots is below 0.05, and the call
\* changes nothing in the store.
C26_ConvergedIff ==
    [][probe'.fn = "has_converged" =>
          /\ probe'.ret.converged <=> ShouldConverge(probe')
          /\ UNCHANGED <<storeVars, epochVars, trainVars>>]_vars

\* a pattern reported converged on its 10 most recent snapshots although
\* an older snapshot lies far from them
C26_Witness ==
    /\ probe.fn = "has_converged"
    /\ probe.ret.converged
    /\ Len(probe.snapshots) > 10
    /\ ~DeviationBelowThreshold(probe.snapshots)

(***************************************************************************)
(* Properties of calculate_similarity (SimSpec).                           *)
(***************************************************************************)
\* the two texts are the same, and not empty
SameWords(words1, words2) == words1 = words2 /\ words1 # {}

\* the two texts share no word
NoCommonWord(words1, words2) == words1 \cap words2 = {}

\* C27: calculate_similarity returns a value in [0, 1] for every pair of
\* patterns and divides by no zero, whichever statement of the try block
\* failed; the value is the Jaccard score of the names weighted 60% plus
\* that of the descriptions weighted 40%.
C27_SimilarityInUnitRange ==
    probe.fn = "calculate_similarity" =>
       /\ probe.ret[2] > 0
       /\ 0 <= probe.ret[1] /\ probe.ret[1] <= probe.ret[2]
       /\ SameWords(probe.pattern1.name, probe.pattern2.name)
             /\ NoCommonWord(probe.pattern1.description, probe.pattern2.description)
             => 10 * probe.ret[1] = 6 * probe.ret[2]
       /\ NoCommonWord(probe.pattern1.name, probe.pattern2.name)
             /\ SameWords(probe.pattern1.description, probe.pattern2.description)
             => 10 * probe.ret[1] = 4 * probe.ret[2]
       /\ SameWords(probe.pattern1.name, probe.pattern2.name)
             /\ SameWords(probe.pattern1.description, probe.pattern2.description)
             => probe.ret[1] = probe.ret[2]

\* the import failed and a pattern without a name was compared with one of
\* the same description: the score is 0.4
C27_Witness ==
    /\ probe.fn = "calculate_similarity"
    /\ probe.engine = "ImportError"
    /\ probe.pattern1.name = {}
    /\ probe.pattern2.name # {}
    /\ SameWords(probe.pattern1.description, probe.pattern2.description)
    /\ 10 * probe.ret[1] = 4 * probe.ret[2]

(***************************************************************************)
(* Properties of the session-end deduplication (Spec).                     *)
(***************************************************************************)
\* every row of the table that p2 owned is the same row owned by p1 afterwards
Moved(before, after, p2, p1) ==
    \A r \in before : r.pattern_id = p2 => [r EXCEPT !.pattern_id = p1] \in after

\* the table holds the same rows, whoever owns them
SameRows(before, after) ==
    /\ Cardinality(after) = Cardinality(before)
    /\ {r.rowid : r \in after} = {r.rowid : r \in before}

\* C29: when deduplicate_patterns merges p2 into p1, the row of p2 is gone,
\* every insight row and every observation row p2 owned is owned by p1, and
\* the numbers of insight rows and of observation rows are unchanged.
C29_DedupReparents ==
    [][(sessionPc = "idle" /\ sessionPc' = "prune") =>
          /\ \A p2 \in DOMAIN patterns \ DOMAIN patterns' :
                \E p1 \in DOMAIN patterns' :
                   /\ patterns'[p1].observations
                         >= patterns[p1].observations + patterns[p2].observations
                   /\ Moved(insights, insights', p2, p1)
                   /\ Moved(observations, observations', p2, p1)
          /\ DOMAIN patterns' \subseteq DOMAIN patterns
          /\ SameRows(insights, insights')
          /\ SameRows(observations, observations')]_vars

\* py-004, observed by a cycle, was merged into the imported io-001, which
\* now owns its insight and observation rows
C29_Witness ==
    /\ sessionPc = "prune"
    /\ "py-004" \notin DOMAIN patterns
    /\ "io-001" \in DOMAIN patterns
    /\ patterns["io-001"].observations >= 2
    /\ \E r \in insights : r.pattern_id = "io-001"
    /\ \E r \in observations : r.pattern_id = "io-001"

(***************************************************************************)
(* Properties of the smart import (Spec).                                  *)
(***************************************************************************)
\* C30: importing, with strategy smart, a record whose id is stored leaves
\* the counts merge_patterns gives for the stored row and the record, and
\* the confidence
\* (successes + helpful_count) / max(observations + helpful_count + harmful_count, 1)
\* of those counts.
C30_SmartImportAsCurator ==
    [][\A pattern \in ImportRecords :
          (/\ pattern.id \in DOMAIN patterns
           /\ patterns' # patterns
           /\ patterns' = import_patterns(patterns, pattern, "smart"))
          => /\ patterns'[pattern.id].observations
                   = merge_patterns(patterns[pattern.id], pattern).observations
             /\ patterns'[pattern.id].successes
                   = merge_patterns(patterns[pattern.id], pattern).successes
             /\ patterns'[pattern.id].failures
                   = merge_patterns(patterns[pattern.id], pattern).failures
             /\ patterns'[pattern.id].neutrals
                   = merge_patterns(patterns[pattern.id], pattern).neutrals
             /\ ConfEq(patterns'[pattern.id].confidence,
                       FeedbackConfidence(merge_patterns(patterns[pattern.id], pattern)))]_vars

(***************************************************************************)
(* Properties of the outcome tallies (TrainSpec).                          *)
(***************************************************************************)
\* C28: every stored pattern has successes + failures + neutrals =
\* observations, after any sequence of cycles, offline-training passes,
\* merges and deduplications.
C28_TalliesSumToObservations ==
    \A id \in DOMAIN patterns :
        patterns[id].successes + patterns[id].failures + patterns[id].neutrals
           = patterns[id].observations

(***************************************************************************)
(* Properties of the first cycle on an empty store (Spec).                 *)
(***************************************************************************)
\* C31: on an empty store, a cycle that observes one new pattern with a
\* success outcome creates exactly one pattern row with observations = 1,
\* successes = 1 and confidence = 1.0, and one insight row and one
\* observation row owned by it.
C31_FirstObservationCreates ==
    [][(/\ DOMAIN patterns = {} /\ insights = {} /\ observations = {}
        /\ run'.signal
        /\ Len(decisions') = 1
        /\ decisions'[1].contributed_to = "success")
       => /\ decisions'[1].action = "create"
          /\ DOMAIN patterns' = {decisions'[1].id}
          /\ patterns'[decisions'[1].id].observations = 1
          /\ patterns'[decisions'[1].id].successes = 1
          /\ patterns'[decisions'[1].id].failures = 0
          /\ patterns'[decisions'[1].id].neutrals = 0
          /\ patterns'[decisions'[1].id].confidence = <<1, 1>>
          /\ Cardinality(insights') = 1
          /\ Cardinality(observations') = 1
          /\ \A r \in insights' \cup observations' :
                r.pattern_id = decisions'[1].id]_vars

\* the store after the first run of the hook, which saw py-004 in a file
\* whose tests passed
C31_Witness ==
    /\ used = 1
    /\ run.signal
    /\ Len(decisions) = 1
    /\ decisions[1].id = "py-004"
    /\ decisions[1].action = "create"
    /\ decisions[1].contributed_to = "success"
    /\ DOMAIN patterns = {"py-004"}
    /\ patterns["py-004"].confidence = <<1, 1>>
    /\ Cardinality(insights) = 1
    /\ Cardinality(observations) = 1

C33_CountsNeverDecrease ==
    [][run'.signal =>
          \A id \in DOMAIN patterns \cap DOMAIN patterns' :
             /\ patterns'[id].observations >= patterns[id].observations
             /\ patterns'[id].helpful_count >= patterns[id].helpful_count
             /\ patterns'[id].harmful_count >= patterns[id].harmful_count]_vars

(***************************************************************************)
(* Properties of one deduplication pass (DedupSpec).                       *)
(***************************************************************************)
\* two rows deduplicate_patterns compares and finds similar
SimilarRows(p1, p2) ==
    /\ p1.domain = p2.domain
    /\ p1.type = p2.type
    /\ RatGE(calculate_similarity_session_end(p1, p2), <<SIMILARITY_THRESHOLD, 100>>)

\* C34: after deduplicate_patterns has returned, no two remaining patterns
\* of the same domain and type have a similarity of 0.85 or more.
C34_NoSimilarPairLeft ==
    sessionPc = "prune" =>
       \A id1 \in DOMAIN patterns, id2 \in DOMAIN patterns :
          id1 # id2 => ~SimilarRows(patterns[id1], patterns[id2])

(***************************************************************************)
(* Properties of the bullet_id of a stored row (Spec).                     *)
(***************************************************************************)
\* the step is an import that deletes the row of the id and inserts the
\* record of the file (INSERT OR REPLACE)
Replaced(id) ==
    \E pattern \in ImportRecords :
       /\ pattern.id = id
       /\ patterns' = insert_or_replace(patterns, pattern)

\* C35: the bullet_id of a pattern never changes from its creation until
\* its deletion: store_pattern updates, cycle merges, feedback recording and
\* session-end deduplication leave it as it is; only an import that deletes
\* the row and inserts another gives the id another bullet_id.
C35_BulletIdKept ==
    [][\A id \in DOMAIN patterns \cap DOMAIN patterns' :
          patterns'[id].bullet_id # patterns[id].bullet_id => Replaced(id)]_vars

\* py-004 still carries the bullet_id it was created with after cycles have
\* updated its row, feedback has marked it and the session end has run
C35_Witness ==
    /\ sessionPc = "prune"
    /\ "py-004" \in DOMAIN patterns
    /\ patterns["py-004"].observations >= 2
    /\ patterns["py-004"].helpful_count >= 1
    /\ patterns["py-004"].bullet_id = BulletId(<<"p", "y">>, 1)
    /\ Cardinality(insights) >= 2

(***************************************************************************)
(* Properties of overlapping start_epoch calls (StartSpec).                *)
(***************************************************************************)
\* C36: under any interleaving of two concurrent start_epoch calls the
\* stored epoch rows have pairwise distinct numbers that form the range
\* 1..k with k <= 5, and at most one of them is running once both calls
\* have returned.
C36_DistinctEpochNumbers ==
    /\ \A i \in DOMAIN epochs : epochs[i].epoch_number = i
    /\ Len(epochs) <= MAX_EPOCHS
    /\ (\A p \in Callers : ~InStartEpoch(p))
          => Cardinality(RunningEpochs(epochs)) <= 1

\* one call is about to commit epoch 2 while the other, called meanwhile,
\* waits for the write lock
C36_Witness ==
    /\ starts[1].pc = "commit"
    /\ starts[1].ret = 2
    /\ starts[2].pc = "update"
    /\ writer = 1
    /\ Len(epochs) = 1

(***************************************************************************)
(* Properties of the two similarity functions (EquivSpec).                 *)
(***************************************************************************)
\* the score is at or above the threshold of a merge
AtThreshold(score) == RatGE(score, <<SIMILARITY_THRESHOLD, 100>>)

\* C37: the fallback similarity of the curator in ace-cycle.py and the
\* similarity of ace-session-end.py give the same score for every pair of
\* patterns, empty names and descriptions included, and so the same merge
\* decision at the threshold of 0.85.
C37_SameSimilarity ==
    probe.fn = "similarity" =>
       /\ probe.curator[2] > 0
       /\ probe.session_end[2] > 0
       /\ probe.curator[1] * probe.session_end[2]
             = probe.session_end[1] * probe.curator[2]
       /\ AtThreshold(probe.curator) <=> AtThreshold(probe.session_end)

\* two rows without a name and with the same description: both functions
\* score 0.4, one through its test for an empty word set, the other through
\* max(len(union), 1)
C37_Witness ==
    /\ probe.fn = "similarity"
    /\ probe.pattern1.name = {}
    /\ probe.pattern2.name = {}
    /\ probe.pattern1.description = probe.pattern2.description
    /\ probe.pattern1.description # {}
    /\ 10 * probe.curator[1] = 4 * probe.curator[2]
    /\ 10 * probe.session_end[1] = 4 * probe.session_end[2]

====
